---- MODULE Spec2Model ----
(***************************************************************************)
(* Rating-and-balancing engine of PinoGPT (football_balancer.py):          *)
(* the player registry, the snake-draft team balancer, the pending-game    *)
(* lifecycle and the ELO update, as one state machine.                     *)
(*                                                                         *)
(* Floating-point quantities are carried as exact rationals where the code *)
(* keeps them rational (K-factor, goal multiplier, performance weight) and *)
(* in binary fixed point with 30 fractional bits where it does not (the    *)
(* logistic expected score).                                               *)
(***************************************************************************)
EXTENDS Integers, Sequences, FiniteSets, TLC

VARIABLES players, pending_games, game_history, supabase, now, last,
          k_factor, file, remote, message, returned,
          threads, running, preemptions,
          manual_game_sessions, scheduler, game_reminders, delivered

\* The state of the process that serves the engine: the requests in
\* progress, and the module-level state of whatsapp_bot_meta.py.
bot ==
    <<threads, running, preemptions, manual_game_sessions, scheduler,
      game_reminders, delivered>>

vars ==
    <<players, pending_games, game_history, supabase, now, last, k_factor, file,
      remote, message, returned, bot>>

-----------------------------------------------------------------------------
(* Bounds of the model *)

\* Largest number of goals in a reported score, both sides together.
MaxGoals == 1

\* update_ratings / record_manual_game are explored while every roster
\* player has played fewer games than this.
MaxGamesPlayed == 1

\* The clock stops advancing at this second.
MaxClock == 1

\* Largest registry of the specification that tries every vote.
MaxVoted == 2

\* Largest number of goals of one side in the specification of loaded
\* registries.
MaxSideGoals == 2

\* Longest message made of arbitrary characters that the parsers are given.
MaxTextLen == 5

\* Longest list of names that is written out as a message.
MaxNames == 3

\* Largest limit get_leaderboard is called with.
MaxLimit == 12

-----------------------------------------------------------------------------
(* Program constants *)

base_k_factor == 32

TeamSize == 5

NumParticipants == 10

-----------------------------------------------------------------------------
(* Names: str.lower() and str.strip() on the names the model uses *)

NameOrder ==
    <<"John", "Mike", "Sarah", "Tom", "Emma", "David", "Lisa", "James",
      "Anna", "Chris", "Alex">>

VoteOf ==
    [n \in {NameOrder[i] : i \in 1..Len(NameOrder)} |->
        CASE n = "John" -> 7 [] n = "Mike" -> 8 [] n = "Sarah" -> 6
          [] n = "Tom" -> 9 [] n = "Emma" -> 5 [] n = "David" -> 7
          [] n = "Lisa" -> 6 [] n = "James" -> 8 [] n = "Anna" -> 5
          [] n = "Chris" -> 7 [] n = "Alex" -> 6]

\* Every name the model offers to an operation.
AllNames ==
    {"John", "Mike", "Sarah", "Tom", "Emma", "David", "Lisa", "James", "Anna",
     "Chris", "Alex", "john", "alex", " Tom ", "Nobody", "Ghost"}

Strip(n) == IF n = " Tom " THEN "Tom" ELSE n

LowerOf ==
    [n \in AllNames |->
        CASE n = "John" -> "john" [] n = "Mike" -> "mike" [] n = "Sarah" -> "sarah"
          [] n = "Tom" -> "tom" [] n = "Emma" -> "emma" [] n = "David" -> "david"
          [] n = "Lisa" -> "lisa" [] n = "James" -> "james" [] n = "Anna" -> "anna"
          [] n = "Chris" -> "chris" [] n = "Alex" -> "alex"
          [] n = "john" -> "john" [] n = "alex" -> "alex"
          [] n = " Tom " -> " tom " [] n = "Nobody" -> "nobody"
          [] n = "Ghost" -> "ghost"]

Lower(n) == LowerOf[n]

-----------------------------------------------------------------------------
(* Sequence helpers *)

Range(s) == {s[i] : i \in 1..Len(s)}

RECURSIVE SumSeq(_)
SumSeq(s) == IF s = <<>> THEN 0 ELSE Head(s) + SumSeq(Tail(s))

\* a deletion that takes the first record whatever the key
RemoveAt_First(s, i) == Tail(s)

RemoveAt(s, i) == SubSeq(s, 1, i - 1) \o SubSeq(s, i + 1, Len(s))

-----------------------------------------------------------------------------
(* Player *)

\* Player.from_vote: elo = int(1000 + (vote - 1) * (1000 / 9))
\* the rating rounded to the nearest integer
from_vote_Rounded(name, vote) ==
    [name |-> name, elo |-> 1000 + ((vote - 1) * 2000 + 9) \div 18,
     games_played |-> 0, wins |-> 0, losses |-> 0]

from_vote(name, vote) ==
    [name |-> name, elo |-> 1000 + ((vote - 1) * 1000) \div 9,
     games_played |-> 0, wins |-> 0, losses |-> 0]

\* The registry is a dict in insertion order: a sequence of Player records
\* with pairwise different (exact) names.
Keys(ps) == {ps[i].name : i \in 1..Len(ps)}

\* self.players[name]: exact-key lookup (0 stands for KeyError).
\* a missing key answered with the first entry
KeyIndex_Default(ps, name) ==
    IF name \in Keys(ps)
    THEN CHOOSE i \in 1..Len(ps) : ps[i].name = name
    ELSE 1

KeyIndex(ps, name) ==
    IF name \in Keys(ps)
    THEN CHOOSE i \in 1..Len(ps) : ps[i].name = name
    ELSE 0

\* _find_player: first entry whose lowercased name equals the lowercased
\* argument (0 stands for None).
find_player(ps, name) ==
    LET hits == {i \in 1..Len(ps) : Lower(ps[i].name) = Lower(name)}
    IN IF hits = {} THEN 0 ELSE CHOOSE i \in hits : \A j \in hits : i <= j

-----------------------------------------------------------------------------
(* Rating model *)

\* Fixed-point unit of the expected score and of 10^x: 2^30.
Unit == 1073741824

HalfUnit == 536870912

\* Limb of the fixed-point product: 2^15.
Limb == 32768

\* Denominator of k * goal_multiplier * perf_weight:
\* goal_multiplier in tenths, perf_weight in 1/20000.
WeightDen == 200000

\* floor(x * y / Unit) for 0 <= x, y <= Unit, by 15-bit limbs so that no
\* intermediate value leaves 32 bits.
MulFix(x, y) ==
    LET x1 == x \div Limb
        x0 == x % Limb
        y1 == y \div Limb
        y0 == y % Limb
    IN (x1 * y1) + (((x1 * y0) + (x0 * y1) + ((x0 * y0) \div Limb)) \div Limb)

\* Long division: t = <<r, q, k, c>> with 0 <= r < c <= Unit; k more
\* quotient bits of r / c are appended to q.
DivBits[t \in Nat \X Nat \X Nat \X Nat] ==
    IF t[3] = 0 THEN t[2]
    ELSE DivBits[<<(2 * t[1]) % t[4], (2 * t[2]) + ((2 * t[1]) \div t[4]),
                   t[3] - 1, t[4]>>]

\* floor(Unit * n / c) for 0 <= n <= c <= Unit, c > 0.
DivFix(n, c) == IF n = c THEN Unit ELSE DivBits[<<n, 0, 30, c>>]

\* 10 ** (-(2^j) / 2000), j = 0..13, in Units.
Pow10Neg ==
    <<1072506344, 1071272286, 1068808428, 1063897700, 1054143827,
      1034903534, 997470063, 926616160, 799649868, 595524825,
      330293380, 101601442, 9613906, 86080>>

\* 10 ** (-n / 2000) in Units, n >= 0: the product of the table entries
\* selected by the bits of n (j is the table index of n's lowest bit);
\* t = <<n, j, acc>>.
Pow10NegBits[t \in Nat \X Nat \X Nat] ==
    IF t[1] = 0 THEN t[3]
    ELSE Pow10NegBits[<<t[1] \div 2, t[2] + 1,
                        IF t[1] % 2 = 0 THEN t[3]
                        ELSE MulFix(t[3], Pow10Neg[t[2]])>>]

Pow10NegOf(n) == Pow10NegBits[<<n, 1, Unit>>]

Abs(x) == IF x < 0 THEN -x ELSE x

\* expected = 1 / (1 + 10 ** ((other_avg - own_avg) / 400)) in Units, from
\* the two roster sums (avg = sum / 5, so the exponent is (other - own)/2000).
Expected(own_sum, other_sum) ==
    LET v == Pow10NegOf(Abs(own_sum - other_sum)) \div 2
    IN IF own_sum >= other_sum
       THEN DivFix(HalfUnit, HalfUnit + v)
       ELSE DivFix(v, HalfUnit + v)

\* the base K-factor for every player
get_player_k_factor_Base(player) == base_k_factor

\* _get_player_k_factor: int(base * games_multiplier * elo_multiplier),
\* the multipliers in hundredths.
get_player_k_factor(player) ==
    LET games_multiplier == IF player.games_played < 10 THEN 120
                            ELSE IF player.games_played < 20 THEN 100
                            ELSE 85
        elo_multiplier == IF player.elo < 1400 THEN 120
                          ELSE IF player.elo < 1600 THEN 100
                          ELSE 80
    IN (base_k_factor * games_multiplier * elo_multiplier) \div 10000

Max(a, b) == IF a >= b THEN a ELSE b

Min(a, b) == IF a <= b THEN a ELSE b

\* the weight left as computed, without the limits
get_performance_weight_Unlimited(player_elo, team_sum, won) ==
    IF won THEN 20000 - 3 * (TeamSize * player_elo - team_sum)
    ELSE 20000 + 3 * (TeamSize * player_elo - team_sum)

\* _get_performance_weight in 1/20000: diff = (elo - sum/5) / 200 and
\* weight = 1 -/+ diff * 0.15 = (20000 -/+ 3 * (5 * elo - sum)) / 20000,
\* limited to [0.7, 1.3].
get_performance_weight(player_elo, team_sum, won) ==
    LET d3 == 3 * (TeamSize * player_elo - team_sum)
        weight == IF won THEN 20000 - d3 ELSE 20000 + d3
    IN Max(14000, Min(26000, weight))

\* the goal difference left out of the multiplier
goal_multiplier_Flat(team1_score, team2_score) == 10

\* 1 + (goal_diff - 1) * 0.1 in tenths.
goal_multiplier(team1_score, team2_score) ==
    10 + (Abs(team1_score - team2_score) - 1)

\* round(x) in place of int(x), for num >= 0
TruncDiv_Nearest(num, den) == (2 * num + den) \div (2 * den)

\* int(x) of the rational num / den, den > 0: truncation toward zero.
TruncDiv(num, den) == IF num >= 0 THEN num \div den ELSE -((-num) \div den)

\* team result in Units: 1.0, 0.0 or 0.5
\* a draw taken for a defeat
TeamResult_NoDraw(own_score, other_score) ==
    IF own_score > other_score THEN Unit ELSE 0

TeamResult(own_score, other_score) ==
    IF own_score > other_score THEN Unit
    ELSE IF own_score < other_score THEN 0
    ELSE HalfUnit

\* change = k * goal_multiplier * perf_weight * (result - expected), as a
\* signed numerator over WeightDen.
Change(player, team_sum, result, expected, gm) ==
    LET k == get_player_k_factor(player)
        perf_weight == get_performance_weight(player.elo, team_sum, result = Unit)
        base_change == result - expected
        m == MulFix(k * gm * perf_weight, Abs(base_change))
    IN IF base_change >= 0 THEN m ELSE -m

\* games_played left as it was
UpdatedPlayer_NoGame(player, team_sum, result, expected, gm) ==
    [player EXCEPT
        !.elo = TruncDiv(player.elo * WeightDen
                           + Change(player, team_sum, result, expected, gm),
                         WeightDen),
        !.wins = IF result = Unit THEN @ + 1 ELSE @,
        !.losses = IF result = 0 THEN @ + 1 ELSE @]

\* a draw counted as a win and as a loss
UpdatedPlayer_DrawCounted(player, team_sum, result, expected, gm) ==
    [player EXCEPT
        !.elo = TruncDiv(player.elo * WeightDen
                           + Change(player, team_sum, result, expected, gm),
                         WeightDen),
        !.games_played = @ + 1,
        !.wins = IF result >= HalfUnit THEN @ + 1 ELSE @,
        !.losses = IF result <= HalfUnit THEN @ + 1 ELSE @]

\* One iteration of the update loop: the player record after the game.
UpdatedPlayer(player, team_sum, result, expected, gm) ==
    [player EXCEPT
        !.elo = TruncDiv(player.elo * WeightDen
                           + Change(player, team_sum, result, expected, gm),
                         WeightDen),
        !.games_played = @ + 1,
        !.wins = IF result = Unit THEN @ + 1 ELSE @,
        !.losses = IF result = 0 THEN @ + 1 ELSE @]

\* The loop over one team's Player objects, idx the registry positions of
\* the roster in roster order; the registry is threaded through, so that a
\* player met twice is updated twice.
RECURSIVE UpdateTeam(_, _, _, _, _, _)
UpdateTeam(ps, idx, team_sum, result, expected, gm) ==
    IF idx = <<>> THEN ps
    ELSE UpdateTeam(
            [ps EXCEPT ![Head(idx)] =
                UpdatedPlayer(ps[Head(idx)], team_sum, result, expected, gm)],
            Tail(idx), team_sum, result, expected, gm)

EloSum(ps, idx) == SumSeq([i \in 1..Len(idx) |-> ps[idx[i]].elo])

\* The registry after both loops of update_ratings / record_manual_game.
ApplyGame(ps, idx1, idx2, team1_score, team2_score) ==
    LET sum1 == EloSum(ps, idx1)
        sum2 == EloSum(ps, idx2)
        expected1 == Expected(sum1, sum2)
        expected2 == Expected(sum2, sum1)
        gm == goal_multiplier(team1_score, team2_score)
        after1 == UpdateTeam(ps, idx1, sum1, TeamResult(team1_score, team2_score),
                             expected1, gm)
    IN UpdateTeam(after1, idx2, sum2, TeamResult(team2_score, team1_score),
                  expected2, gm)

-----------------------------------------------------------------------------
(* The local file and the remote tables *)

\* Player.to_dict / Player.from_dict
to_dict(player) ==
    [name |-> player.name, elo |-> player.elo,
     games_played |-> player.games_played,
     wins |-> player.wins, losses |-> player.losses]

\* a from_dict that stops after the constructor
from_dict_Constructed(data) ==
    [name |-> data.name, elo |-> data.elo, games_played |-> 0,
     wins |-> 0, losses |-> 0]

from_dict(data) ==
    [name |-> data.name, elo |-> data.elo,
     games_played |-> data.games_played,
     wins |-> data.wins, losses |-> data.losses]

RowsOf(ps) == [i \in 1..Len(ps) |-> to_dict(ps[i])]

PlayersOf(rows) == [i \in 1..Len(rows) |-> from_dict(rows[i])]

\* What json.dump writes.
FileOf(ps, games, k) == [players |-> RowsOf(ps), pending_games |-> games, k_factor |-> k]

\* The tables players and pending_games of the remote store.
EmptyRemote == [players |-> <<>>, pending_games |-> <<>>]

\* Whether a request to the remote store succeeds; there is none without a
\* client.
RequestOutcomes == IF supabase THEN BOOLEAN ELSE {FALSE}

RowIndex(rows, name) ==
    IF \E i \in 1..Len(rows) : rows[i].name = name
    THEN CHOOSE i \in 1..Len(rows) : rows[i].name = name
    ELSE 0

\* table('players').upsert(row, on_conflict='name') for the rows from i on.
RECURSIVE UpsertAll(_, _, _)
UpsertAll(table, rows, i) ==
    IF i > Len(rows) THEN table
    ELSE IF RowIndex(table, rows[i].name) = 0
         THEN UpsertAll(Append(table, rows[i]), rows, i + 1)
         ELSE UpsertAll([table EXCEPT ![RowIndex(table, rows[i].name)] = rows[i]],
                        rows, i + 1)

\* table('players').delete().eq('name', name)
delete_player_from_supabase(name) ==
    [remote EXCEPT !.players =
        IF RowIndex(remote.players, name) = 0 THEN remote.players
        ELSE RemoveAt(remote.players, RowIndex(remote.players, name))]

-----------------------------------------------------------------------------
(* The serving process *)

\* No request is being served, nobody is entering a manual game and no
\* reminder is scheduled: the module state of whatsapp_bot_meta.py after
\* import (lines 38-45).
Threads == 1..2

IdleThread ==
    [pc |-> "idle", game_id |-> -1, team1_score |-> 0, team2_score |-> 0,
     team1 |-> <<>>, team2 |-> <<>>, idx |-> <<>>, sum1 |-> 0, sum2 |-> 0,
     n |-> 0, tmp |-> 0, result |-> ""]

BotIdle ==
    /\ threads = [t \in Threads |-> IdleThread]
    /\ running = 0
    /\ preemptions = 0
    /\ manual_game_sessions = <<>>
    /\ scheduler = <<>>
    /\ game_reminders = <<>>
    /\ delivered = <<>>

-----------------------------------------------------------------------------
(* Outcome of the last call, as its caller sees it *)

Outcome(op, kind, game_id, missing) ==
    [op |-> op, kind |-> kind, game_id |-> game_id, missing |-> missing]

NoGame == -1

NoTeams == <<>>

-----------------------------------------------------------------------------
(* Registry operations *)

AddNames == Range(NameOrder) \cup {"john", " Tom "}

\* The vote offered with a name: the one of the test data, or one out of range.
AddVotes(n) ==
    {0, 11} \cup (IF Strip(n) \in DOMAIN VoteOf THEN {VoteOf[Strip(n)]} ELSE {2})

\* Names offered to add_player: players are registered in NameOrder order
\* under the spelling of NameOrder (padded or not), and any spelling of a
\* registered name may be offered again.
FirstMissing(ps) ==
    LET absent == {i \in 1..Len(NameOrder) :
                      find_player(ps, NameOrder[i]) = 0}
    IN IF absent = {} THEN 0 ELSE CHOOSE i \in absent : \A j \in absent : i <= j

Offered(ps) ==
    LET first == FirstMissing(ps)
    IN {n \in AddNames :
          \/ find_player(ps, Strip(n)) # 0
          \/ first # 0 /\ Strip(n) = NameOrder[first]}

\* the comparison of names made case-sensitive
add_player_CaseSensitive(name, initial_vote) ==
    /\ IF ~(1 <= initial_vote /\ initial_vote <= 10)
       THEN /\ last' = Outcome("add_player", "validation_error", NoGame, <<>>)
            /\ players' = players
       ELSE IF Strip(name) \in Keys(players)
       THEN /\ last' = Outcome("add_player", "duplicate_error", NoGame, <<>>)
            /\ players' = players
       ELSE /\ players' = Append(players, from_vote(Strip(name), initial_vote))
            /\ last' = Outcome("add_player", "ok", NoGame, <<>>)
    /\ UNCHANGED <<pending_games, game_history, supabase, now, k_factor, file,
                 remote, message, returned, bot>>

\* the range of the vote not checked
add_player_AnyVote(name, initial_vote) ==
    /\ IF Lower(Strip(name)) \in {Lower(p) : p \in Keys(players)}
       THEN /\ last' = Outcome("add_player", "duplicate_error", NoGame, <<>>)
            /\ players' = players
       ELSE /\ players' = Append(players, from_vote(Strip(name), initial_vote))
            /\ last' = Outcome("add_player", "ok", NoGame, <<>>)
    /\ UNCHANGED <<pending_games, game_history, supabase, now, k_factor, file,
                 remote, message, returned, bot>>

add_player(name, initial_vote) ==
    /\ IF ~(1 <= initial_vote /\ initial_vote <= 10)
       THEN /\ last' = Outcome("add_player", "validation_error", NoGame, <<>>)
            /\ players' = players
       ELSE IF Lower(Strip(name)) \in {Lower(p) : p \in Keys(players)}
       THEN /\ last' = Outcome("add_player", "duplicate_error", NoGame, <<>>)
            /\ players' = players
       ELSE /\ players' = Append(players, from_vote(Strip(name), initial_vote))
            /\ last' = Outcome("add_player", "ok", NoGame, <<>>)
    /\ UNCHANGED <<pending_games, game_history, supabase, now, k_factor, file,
                 remote, message, returned, bot>>

RemoveNames == {"alex", "Nobody"}

remove_player(name) ==
    /\ LET i == find_player(players, name)
       IN IF i = 0
          THEN /\ last' = Outcome("remove_player", "not_found", NoGame, <<>>)
               /\ players' = players
               /\ remote' = remote
          ELSE /\ players' = RemoveAt(players, i)
               /\ \E deleted \in RequestOutcomes :
                     remote' = IF deleted
                               THEN delete_player_from_supabase(players[i].name)
                               ELSE remote
               /\ last' = Outcome("remove_player", "ok", NoGame, <<>>)
    /\ UNCHANGED <<pending_games, game_history, supabase, now, k_factor, file,
                 message, returned, bot>>

-----------------------------------------------------------------------------
(* Team balancer *)

\* list.sort(key=elo, reverse=True) on registry positions: stable, so
\* players of equal rating keep their order.  Insert(sorted, i) puts i after
\* every element whose rating is not lower.
RECURSIVE Insert(_, _, _)
\* a sort that puts a player before those of equal rating
Insert_Unstable(ps, sorted, i) ==
    IF sorted = <<>> THEN <<i>>
    ELSE IF ps[Head(sorted)].elo > ps[i].elo
         THEN <<Head(sorted)>> \o Insert(ps, Tail(sorted), i)
         ELSE <<i>> \o sorted

Insert(ps, sorted, i) ==
    IF sorted = <<>> THEN <<i>>
    ELSE IF ps[Head(sorted)].elo >= ps[i].elo
         THEN <<Head(sorted)>> \o Insert(ps, Tail(sorted), i)
         ELSE <<i>> \o sorted

RECURSIVE SortByEloDesc(_, _)
SortByEloDesc(ps, idx) ==
    IF idx = <<>> THEN <<>>
    ELSE Insert(ps, SortByEloDesc(ps, SubSeq(idx, 1, Len(idx) - 1)),
                idx[Len(idx)])

\* The snake draft: position i (from 0) goes to team 1 iff i % 4 is 0 or 3.
\* positions dealt out in turn
InTeam1_Alternate(i) == i % 2 = 0

InTeam1(i) == i % 4 = 0 \/ i % 4 = 3

TeamOf(sorted, first) ==
    LET F[k \in 0..Len(sorted)] ==
          IF k = 0 THEN <<>>
          ELSE IF InTeam1(k - 1) = first THEN Append(F[k - 1], sorted[k])
               ELSE F[k - 1]
    IN F[Len(sorted)]

Team1Of(sorted) == TeamOf(sorted, TRUE)

Team2Of(sorted) == TeamOf(sorted, FALSE)

NamesOf(ps, idx) == [i \in 1..Len(idx) |-> ps[idx[i]].name]

\* only the first name with no match
Missing_First(ps, names) ==
    SubSeq(SelectSeq(names, LAMBDA n : find_player(ps, n) = 0), 1, 1)

\* names with no case-insensitive match, in input order
Missing(ps, names) == SelectSeq(names, LAMBDA n : find_player(ps, n) = 0)

\* round(sum / 5) for a non-negative integer sum (no tie can occur)
RoundAvg(sum, n) == (2 * sum + n) \div (2 * n)

\* strftime("%Y%m%d_%H%M%S"): the clock, which the model keeps in whole
\* seconds
GameIdAt(t) == t

\* The dict after d[key] = value, and after del d[key].
DictSet(d, key, value) ==
    [g \in DOMAIN d \cup {key} |-> IF g = key THEN value ELSE d[g]]

\* del d[key] left out
DictDel_Kept(d, key) == d

DictDel(d, key) == [g \in DOMAIN d \ {key} |-> d[g]]

\* Every player at the given registry positions has played fewer than
\* MaxGamesPlayed games.
MayPlay(ps, idx) == \A i \in 1..Len(idx) : ps[idx[i]].games_played < MaxGamesPlayed

Roster10 == SubSeq(NameOrder, 1, 10)

ParticipantLists ==
    { Roster10,
      <<"john">> \o SubSeq(NameOrder, 2, 10),
      <<"Alex">> \o SubSeq(NameOrder, 1, 9),
      [i \in 1..10 |-> NameOrder[11 - i]],
      <<"John", "Mike">>,
      <<"Nobody">> \o SubSeq(NameOrder, 2, 9) \o <<"Ghost">> }

create_teams(participant_names) ==
    /\ IF Len(participant_names) # NumParticipants
       THEN /\ last' = Outcome("create_teams", "validation_error", NoGame, <<>>)
            /\ pending_games' = pending_games
       ELSE IF Missing(players, participant_names) # <<>>
       THEN /\ last' = Outcome("create_teams", "not_found", NoGame,
                               Missing(players, participant_names))
            /\ pending_games' = pending_games
       ELSE LET participants ==
                    [i \in 1..Len(participant_names) |->
                        find_player(players, participant_names[i])]
                sorted == SortByEloDesc(players, participants)
                team1 == Team1Of(sorted)
                team2 == Team2Of(sorted)
                game_id == GameIdAt(now)
                teams == [game_id |-> game_id,
                          team1 |-> NamesOf(players, team1),
                          team2 |-> NamesOf(players, team2),
                          team1_avg_elo |-> RoundAvg(EloSum(players, team1), Len(team1)),
                          team2_avg_elo |-> RoundAvg(EloSum(players, team2), Len(team2)),
                          timestamp |-> now]
            IN /\ pending_games' = DictSet(pending_games, game_id, teams)
               /\ last' = Outcome("create_teams", "ok", game_id, <<>>)
    /\ UNCHANGED <<players, game_history, supabase, now, k_factor, file,
                 remote, message, returned, bot>>

-----------------------------------------------------------------------------
(* Game lifecycle *)

Winner(team1_score, team2_score, draw) ==
    IF team1_score > team2_score THEN "Team 1"
    ELSE IF team2_score > team1_score THEN "Team 2"
    ELSE draw

\* The winner update_ratings declares, and the one record_manual_game does.
update_ratings_winner(team1_score, team2_score) ==
    Winner(team1_score, team2_score, "Draw")

record_manual_game_winner(team1_score, team2_score) ==
    Winner(team1_score, team2_score, "Pareggio")

HistoryRecord(game_id, suffix, team1, team2, score1, score2, sum1, sum2, winner) ==
    [game_id |-> game_id, suffix |-> suffix, team1 |-> team1, team2 |-> team2,
     team1_score |-> score1, team2_score |-> score2,
     team1_avg_elo |-> sum1 \div TeamSize, team2_avg_elo |-> sum2 \div TeamSize,
     winner |-> winner]

\* _save_game_history: without a remote store nothing is written; with one,
\* a failing insert is caught and only printed.
save_game_history(record, inserted) ==
    game_history' = IF supabase /\ inserted THEN Append(game_history, record)
                    ELSE game_history

InsertOutcomes == IF supabase THEN BOOLEAN ELSE {FALSE}

Scores == {s \in (0..MaxGoals) \X (0..MaxGoals) : s[1] + s[2] <= MaxGoals}

GameIds == 0..GameIdAt(MaxClock)

\* an identifier that is not pending answered with success
update_ratings_UnknownAccepted(game_id, team1_score, team2_score) ==
    /\ IF game_id \notin DOMAIN pending_games
       THEN /\ last' = Outcome("update_ratings", "ok", game_id, <<>>)
            /\ UNCHANGED <<players, pending_games, game_history>>
       ELSE LET game == pending_games[game_id]
                team1_players == [i \in 1..Len(game.team1) |-> KeyIndex(players, game.team1[i])]
                team2_players == [i \in 1..Len(game.team2) |-> KeyIndex(players, game.team2[i])]
            IN IF 0 \in Range(team1_players) \cup Range(team2_players)
               THEN \* self.players[name] raises KeyError
                    /\ last' = Outcome("update_ratings", "KeyError", game_id, <<>>)
                    /\ UNCHANGED <<players, pending_games, game_history>>
               ELSE /\ players' = ApplyGame(players, team1_players, team2_players,
                                            team1_score, team2_score)
                    /\ \E inserted \in InsertOutcomes :
                         save_game_history(
                            HistoryRecord(game_id, "", game.team1, game.team2,
                                          team1_score, team2_score,
                                          EloSum(players, team1_players),
                                          EloSum(players, team2_players),
                                          update_ratings_winner(team1_score, team2_score)),
                            inserted)
                    /\ pending_games' = DictDel(pending_games, game_id)
                    /\ last' = Outcome("update_ratings", "ok", game_id, <<>>)
    /\ UNCHANGED <<supabase, now, k_factor, file,
                 remote, message, returned, bot>>

\* both loops with the averages that create_teams stored in the game
ApplyGame_Sums(ps, idx1, idx2, sum1, sum2, team1_score, team2_score) ==
    LET gm == goal_multiplier(team1_score, team2_score)
        after1 == UpdateTeam(ps, idx1, sum1, TeamResult(team1_score, team2_score),
                             Expected(sum1, sum2), gm)
    IN UpdateTeam(after1, idx2, sum2, TeamResult(team2_score, team1_score),
                  Expected(sum2, sum1), gm)

update_ratings_StoredAverages(game_id, team1_score, team2_score) ==
    /\ IF game_id \notin DOMAIN pending_games
       THEN /\ last' = Outcome("update_ratings", "not_found", game_id, <<>>)
            /\ UNCHANGED <<players, pending_games, game_history>>
       ELSE LET game == pending_games[game_id]
                team1_players == [i \in 1..Len(game.team1) |-> KeyIndex(players, game.team1[i])]
                team2_players == [i \in 1..Len(game.team2) |-> KeyIndex(players, game.team2[i])]
            IN IF 0 \in Range(team1_players) \cup Range(team2_players)
               THEN \* self.players[name] raises KeyError
                    /\ last' = Outcome("update_ratings", "KeyError", game_id, <<>>)
                    /\ UNCHANGED <<players, pending_games, game_history>>
               ELSE /\ players' = ApplyGame_Sums(players, team1_players, team2_players,
                                                 TeamSize * game.team1_avg_elo,
                                                 TeamSize * game.team2_avg_elo,
                                                 team1_score, team2_score)
                    /\ \E inserted \in InsertOutcomes :
                         save_game_history(
                            HistoryRecord(game_id, "", game.team1, game.team2,
                                          team1_score, team2_score,
                                          EloSum(players, team1_players),
                                          EloSum(players, team2_players),
                                          update_ratings_winner(team1_score, team2_score)),
                            inserted)
                    /\ pending_games' = DictDel(pending_games, game_id)
                    /\ last' = Outcome("update_ratings", "ok", game_id, <<>>)
    /\ UNCHANGED <<supabase, now, k_factor, file,
                 remote, message, returned, bot>>

\* each roster name looked up only when its turn in the loops comes
update_ratings_LateLookup(game_id, team1_score, team2_score) ==
    /\ IF game_id \notin DOMAIN pending_games
       THEN /\ last' = Outcome("update_ratings", "not_found", game_id, <<>>)
            /\ UNCHANGED <<players, pending_games, game_history>>
       ELSE LET game == pending_games[game_id]
                team1_players == [i \in 1..Len(game.team1) |-> KeyIndex(players, game.team1[i])]
                team2_players == [i \in 1..Len(game.team2) |-> KeyIndex(players, game.team2[i])]
            IN IF 0 \in Range(team1_players) \cup Range(team2_players)
               THEN \* self.players[name] raises KeyError
                    /\ last' = Outcome("update_ratings", "KeyError", game_id, <<>>)
                    /\ players' = LET Found(i) == i # 0
                                  IN ApplyGame(players, SelectSeq(team1_players, Found),
                                               SelectSeq(team2_players, Found),
                                               team1_score, team2_score)
                    /\ UNCHANGED <<pending_games, game_history>>
               ELSE /\ players' = ApplyGame(players, team1_players, team2_players,
                                            team1_score, team2_score)
                    /\ \E inserted \in InsertOutcomes :
                         save_game_history(
                            HistoryRecord(game_id, "", game.team1, game.team2,
                                          team1_score, team2_score,
                                          EloSum(players, team1_players),
                                          EloSum(players, team2_players),
                                          update_ratings_winner(team1_score, team2_score)),
                            inserted)
                    /\ pending_games' = DictDel(pending_games, game_id)
                    /\ last' = Outcome("update_ratings", "ok", game_id, <<>>)
    /\ UNCHANGED <<supabase, now, k_factor, file,
                 remote, message, returned, bot>>

update_ratings(game_id, team1_score, team2_score) ==
    /\ IF game_id \notin DOMAIN pending_games
       THEN /\ last' = Outcome("update_ratings", "not_found", game_id, <<>>)
            /\ UNCHANGED <<players, pending_games, game_history>>
       ELSE LET game == pending_games[game_id]
                team1_players == [i \in 1..Len(game.team1) |-> KeyIndex(players, game.team1[i])]
                team2_players == [i \in 1..Len(game.team2) |-> KeyIndex(players, game.team2[i])]
            IN IF 0 \in Range(team1_players) \cup Range(team2_players)
               THEN \* self.players[name] raises KeyError
                    /\ last' = Outcome("update_ratings", "KeyError", game_id, <<>>)
                    /\ UNCHANGED <<players, pending_games, game_history>>
               ELSE /\ players' = ApplyGame(players, team1_players, team2_players,
                                            team1_score, team2_score)
                    /\ \E inserted \in InsertOutcomes :
                         save_game_history(
                            HistoryRecord(game_id, "", game.team1, game.team2,
                                          team1_score, team2_score,
                                          EloSum(players, team1_players),
                                          EloSum(players, team2_players),
                                          update_ratings_winner(team1_score, team2_score)),
                            inserted)
                    /\ pending_games' = DictDel(pending_games, game_id)
                    /\ last' = Outcome("update_ratings", "ok", game_id, <<>>)
    /\ UNCHANGED <<supabase, now, k_factor, file,
                 remote, message, returned, bot>>

ManualRosters ==
    { <<SubSeq(NameOrder, 1, 5), SubSeq(NameOrder, 6, 10)>>,
      <<<<"john">> \o SubSeq(NameOrder, 2, 5), SubSeq(NameOrder, 6, 10)>>,
      <<SubSeq(NameOrder, 1, 4), SubSeq(NameOrder, 6, 10)>>,
      <<SubSeq(NameOrder, 1, 4) \o <<"john">>, SubSeq(NameOrder, 6, 10)>>,
      <<SubSeq(NameOrder, 1, 4) \o <<"Nobody">>, <<"Ghost">> \o SubSeq(NameOrder, 7, 10)>> }

\* the pending game of the same second taken for the game recorded
record_manual_game_DropsPending(team1_names, team2_names, team1_score, team2_score) ==
    /\ IF Len(team1_names) # TeamSize \/ Len(team2_names) # TeamSize
       THEN /\ last' = Outcome("record_manual_game", "validation_error", NoGame, <<>>)
            /\ UNCHANGED <<players, game_history>>
       ELSE IF Missing(players, team1_names) \o Missing(players, team2_names) # <<>>
       THEN /\ last' = Outcome("record_manual_game", "not_found", NoGame,
                               Missing(players, team1_names) \o Missing(players, team2_names))
            /\ UNCHANGED <<players, game_history>>
       ELSE LET team1_players == [i \in 1..Len(team1_names) |-> find_player(players, team1_names[i])]
                team2_players == [i \in 1..Len(team2_names) |-> find_player(players, team2_names[i])]
            IN /\ players' = ApplyGame(players, team1_players, team2_players,
                                       team1_score, team2_score)
               /\ \E inserted \in InsertOutcomes :
                    save_game_history(
                       HistoryRecord(GameIdAt(now), "_manual",
                                     NamesOf(players, team1_players),
                                     NamesOf(players, team2_players),
                                     team1_score, team2_score,
                                     EloSum(players, team1_players),
                                     EloSum(players, team2_players),
                                     record_manual_game_winner(team1_score, team2_score)),
                       inserted)
               /\ last' = Outcome("record_manual_game", "ok", NoGame, <<>>)
    /\ pending_games' = DictDel(pending_games, GameIdAt(now))
    /\ UNCHANGED <<supabase, now, k_factor, file,
                 remote, message, returned, bot>>

record_manual_game(team1_names, team2_names, team1_score, team2_score) ==
    /\ IF Len(team1_names) # TeamSize \/ Len(team2_names) # TeamSize
       THEN /\ last' = Outcome("record_manual_game", "validation_error", NoGame, <<>>)
            /\ UNCHANGED <<players, game_history>>
       ELSE IF Missing(players, team1_names) \o Missing(players, team2_names) # <<>>
       THEN /\ last' = Outcome("record_manual_game", "not_found", NoGame,
                               Missing(players, team1_names) \o Missing(players, team2_names))
            /\ UNCHANGED <<players, game_history>>
       ELSE LET team1_players == [i \in 1..Len(team1_names) |-> find_player(players, team1_names[i])]
                team2_players == [i \in 1..Len(team2_names) |-> find_player(players, team2_names[i])]
            IN /\ players' = ApplyGame(players, team1_players, team2_players,
                                       team1_score, team2_score)
               /\ \E inserted \in InsertOutcomes :
                    save_game_history(
                       HistoryRecord(GameIdAt(now), "_manual",
                                     NamesOf(players, team1_players),
                                     NamesOf(players, team2_players),
                                     team1_score, team2_score,
                                     EloSum(players, team1_players),
                                     EloSum(players, team2_players),
                                     record_manual_game_winner(team1_score, team2_score)),
                       inserted)
               /\ last' = Outcome("record_manual_game", "ok", NoGame, <<>>)
    /\ UNCHANGED <<pending_games, supabase, now, k_factor, file,
                 remote, message, returned, bot>>

\* an unknown identifier answered with success
delete_pending_game_Silent(game_id) ==
    /\ pending_games' = DictDel(pending_games, game_id)
    /\ last' = Outcome("delete_pending_game", "ok", game_id, <<>>)
    /\ UNCHANGED <<players, game_history, supabase, now, k_factor, file,
                 remote, message, returned, bot>>

\* delete_pending_game is called by api_delete_pending_game, which takes a
\* result starting with the success mark for success and anything else for
\* "not found" (HTTP 404); its body is not part of football_balancer.py.
\* Cancelling removes the pending entry with no rating effect and fails as
\* not found for an unknown identifier.
delete_pending_game(game_id) ==
    /\ IF game_id \notin DOMAIN pending_games
       THEN /\ last' = Outcome("delete_pending_game", "not_found", game_id, <<>>)
            /\ pending_games' = pending_games
       ELSE /\ pending_games' = DictDel(pending_games, game_id)
            /\ last' = Outcome("delete_pending_game", "ok", game_id, <<>>)
    /\ UNCHANGED <<players, game_history, supabase, now, k_factor, file,
                 remote, message, returned, bot>>

\* Wall-clock time passes between calls.
Tick ==
    /\ now < MaxClock
    /\ now' = now + 1
    /\ last' = Outcome("tick", "ok", NoGame, <<>>)
    /\ UNCHANGED <<players, pending_games, game_history, supabase, k_factor, file,
                 remote, message, returned, bot>>

\* s[:limit] of Python.
SliceTo(s, limit) ==
    IF limit >= 0 THEN SubSeq(s, 1, Min(limit, Len(s)))
    ELSE SubSeq(s, 1, Max(Len(s) + limit, 0))

\* get_leaderboard: the number in the heading (none when the text is "No
\* players yet!") and the players of the rows, in the order of the rows.
get_leaderboard(limit) ==
    IF players = <<>>
    THEN [heading |-> <<>>, rows |-> <<>>]
    ELSE [heading |-> <<Min(limit, Len(players))>>,
          rows |-> SliceTo([k \in 1..Len(players) |->
                              players[SortByEloDesc(players,
                                        [i \in 1..Len(players) |-> i])[k]]],
                           limit)]

CallGetLeaderboard(limit) ==
    /\ returned' = get_leaderboard(limit)
    /\ last' = Outcome("get_leaderboard", "ok", NoGame, <<>>)
    /\ UNCHANGED <<players, pending_games, game_history, supabase, now,
                   k_factor, file, remote, message, bot>>

\* _save_to_local_file: reading self.k_factor raises AttributeError on an
\* engine whose attribute was never set, before the file is opened.
save_to_local_file ==
    IF k_factor = <<>>
    THEN /\ last' = Outcome("save_to_file", "AttributeError", NoGame, <<>>)
         /\ file' = file
    ELSE /\ file' = <<FileOf(players, pending_games, k_factor[1])>>
         /\ last' = Outcome("save_to_file", "ok", NoGame, <<>>)

\* save_to_file: to the remote store when there is a client, to the local
\* file when there is none or when a request fails (modelled as the first
\* request failing).
save_to_file ==
    /\ \E saved \in RequestOutcomes :
          IF saved
          THEN /\ remote' = [players |-> UpsertAll(remote.players, RowsOf(players), 1),
                             pending_games |-> pending_games]
               /\ last' = Outcome("save_to_file", "ok", NoGame, <<>>)
               /\ file' = file
          ELSE /\ save_to_local_file
               /\ remote' = remote
    /\ UNCHANGED <<players, pending_games, game_history, supabase, now,
                   k_factor, message, returned, bot>>

\* _load_from_local_file
load_from_local_file ==
    IF file = <<>>
    THEN /\ last' = Outcome("load_from_file", "not_found", NoGame, <<>>)
         /\ UNCHANGED <<players, pending_games, k_factor>>
    ELSE /\ players' = PlayersOf(file[1].players)
         /\ pending_games' = file[1].pending_games
         /\ k_factor' = <<file[1].k_factor>>
         /\ last' = Outcome("load_from_file", "ok", NoGame, <<>>)

\* load_from_file: from the remote store when there is a client, from the
\* local file when there is none or when a request fails.
load_from_file ==
    /\ \E loaded \in RequestOutcomes :
          IF loaded
          THEN /\ players' = PlayersOf(remote.players)
               /\ pending_games' = remote.pending_games
               /\ k_factor' = k_factor
               /\ last' = Outcome("load_from_file", "ok", NoGame, <<>>)
          ELSE load_from_local_file
    /\ UNCHANGED <<game_history, supabase, now, file, remote, message, returned, bot>>

\* A new engine is constructed in the same environment: TeamBalancer().
NewEngine ==
    /\ players' = <<>>
    /\ pending_games' = <<>>
    /\ k_factor' = <<>>
    /\ last' = Outcome("init", "ok", NoGame, <<>>)
    /\ UNCHANGED <<game_history, supabase, now, file, remote, message, returned, bot>>

-----------------------------------------------------------------------------
(* Text: a message is the sequence of its characters *)

\* \d of the regular expressions, on the characters the model uses.
Digits == {"0", "1", "2", "3", "4", "5", "6", "7", "8", "9"}

\* \s of the regular expressions and of str.strip().
Whitespace == {" ", "\n", "\t"}

DigitValue(c) ==
    CASE c = "0" -> 0 [] c = "1" -> 1 [] c = "2" -> 2 [] c = "3" -> 3
      [] c = "4" -> 4 [] c = "5" -> 5 [] c = "6" -> 6 [] c = "7" -> 7
      [] c = "8" -> 8 [] c = "9" -> 9

DigitOf(n) ==
    CASE n = 0 -> "0" [] n = 1 -> "1" [] n = 2 -> "2" [] n = 3 -> "3"
      [] n = 4 -> "4" [] n = 5 -> "5" [] n = 6 -> "6" [] n = 7 -> "7"
      [] n = 8 -> "8" [] n = 9 -> "9"

\* The first position from i on whose character is not of the class: where
\* a greedy \d+, \s* or \s+ that starts at i stops.
RECURSIVE SkipWhile(_, _, _)
SkipWhile(text, i, class) ==
    IF i <= Len(text) /\ text[i] \in class
    THEN SkipWhile(text, i + 1, class)
    ELSE i

\* int() of the digits text[from] .. text[to - 1].
RECURSIVE IntOf(_, _, _)
IntOf(text, from, to) ==
    IF from >= to THEN 0
    ELSE IntOf(text, from, to - 1) * 10 + DigitValue(text[to - 1])

\* (\d+)\s*[-:]\s*(\d+) matched at position i: the two groups as integers,
\* or no match.
HyphenMatch(text, i) ==
    LET a == SkipWhile(text, i, Digits)
        b == SkipWhile(text, a, Whitespace)
        c == SkipWhile(text, b + 1, Whitespace)
        d == SkipWhile(text, c, Digits)
    IN  IF a > i /\ b <= Len(text) /\ text[b] \in {"-", ":"} /\ d > c
        THEN <<IntOf(text, i, a), IntOf(text, c, d)>>
        ELSE <<>>

\* (\d+)\s+(\d+) matched at position i.
SpaceMatch(text, i) ==
    LET a == SkipWhile(text, i, Digits)
        b == SkipWhile(text, a, Whitespace)
        d == SkipWhile(text, b, Digits)
    IN  IF a > i /\ b > a /\ d > b
        THEN <<IntOf(text, i, a), IntOf(text, b, d)>>
        ELSE <<>>

\* re.search: the match at the leftmost position that has one.
RECURSIVE SearchHyphen(_, _)
SearchHyphen(text, i) ==
    IF i > Len(text) THEN <<>>
    ELSE IF HyphenMatch(text, i) # <<>> THEN HyphenMatch(text, i)
    ELSE SearchHyphen(text, i + 1)

RECURSIVE SearchSpace(_, _)
SearchSpace(text, i) ==
    IF i > Len(text) THEN <<>>
    ELSE IF SpaceMatch(text, i) # <<>> THEN SpaceMatch(text, i)
    ELSE SearchSpace(text, i + 1)

\* a parser that tries the space format before the hyphen format
parse_score_SpaceFirst(text) ==
    IF SearchSpace(text, 1) # <<>>
    THEN SearchSpace(text, 1)
    ELSE SearchHyphen(text, 1)

\* parse_score: the pair of scores, or <<>> for None.
parse_score(text) ==
    IF SearchHyphen(text, 1) # <<>>
    THEN SearchHyphen(text, 1)
    ELSE SearchSpace(text, 1)

\* The bot hands the text of a message to parse_score.
CallParseScore ==
    /\ returned' = parse_score(message)
    /\ last' = Outcome("parse_score", "ok", NoGame, <<>>)
    /\ UNCHANGED <<players, pending_games, game_history, supabase, now,
                   k_factor, file, remote, message, bot>>

\* '^' of a pattern that is not compiled with re.MULTILINE
AtLineStart_StringStart(text, i) == i = 1

\* '^' under re.MULTILINE: the start of the text and after every newline.
AtLineStart(text, i) == i = 1 \/ text[i - 1] = "\n"

\* ^\d+[\.\)]\s* at position i: the position after the match, 0 for no
\* match.
OrdinalEnd(text, i) ==
    LET a == SkipWhile(text, i, Digits)
    IN  IF AtLineStart(text, i) /\ a > i /\ a <= Len(text)
                                /\ text[a] \in {".", ")"}
        THEN SkipWhile(text, a + 1, Whitespace)
        ELSE 0

\* The character U+2022 (bullet), which a string of this language cannot hold.
Bullet == "U+2022"

\* ^[-U+2022]\s* at position i.
BulletEnd(text, i) ==
    IF AtLineStart(text, i) /\ text[i] \in {"-", Bullet}
    THEN SkipWhile(text, i + 1, Whitespace)
    ELSE 0

\* re.sub of the two patterns by the empty string, from position i on.
RECURSIVE StripOrdinals(_, _)
StripOrdinals(text, i) ==
    IF i > Len(text) THEN <<>>
    ELSE IF OrdinalEnd(text, i) # 0 THEN StripOrdinals(text, OrdinalEnd(text, i))
    ELSE <<text[i]>> \o StripOrdinals(text, i + 1)

RECURSIVE StripBullets(_, _)
StripBullets(text, i) ==
    IF i > Len(text) THEN <<>>
    ELSE IF BulletEnd(text, i) # 0 THEN StripBullets(text, BulletEnd(text, i))
    ELSE <<text[i]>> \o StripBullets(text, i + 1)

\* The position of the first sep from i on, Len(text) + 1 if there is none.
RECURSIVE NextSep(_, _, _)
NextSep(text, sep, i) ==
    IF i <= Len(text) /\ text[i] # sep THEN NextSep(text, sep, i + 1) ELSE i

\* str.split(sep) of text[i ..].
RECURSIVE Split(_, _, _)
Split(text, sep, i) ==
    IF NextSep(text, sep, i) > Len(text)
    THEN <<SubSeq(text, i, Len(text))>>
    ELSE <<SubSeq(text, i, NextSep(text, sep, i) - 1)>>
            \o Split(text, sep, NextSep(text, sep, i) + 1)

RECURSIVE LastNonSpace(_, _)
LastNonSpace(text, i) ==
    IF i >= 1 /\ text[i] \in Whitespace THEN LastNonSpace(text, i - 1) ELSE i

\* str.strip()
strip(text) ==
    SubSeq(text, SkipWhile(text, 1, Whitespace), LastNonSpace(text, Len(text)))

NonEmpty(name) == name # <<>>

\* parse_participant_list: the names of a message, each a sequence of
\* characters.
parse_participant_list(text) ==
    LET cleaned == StripBullets(StripOrdinals(text, 1), 1)
        pieces == IF "\n" \in Range(cleaned)
                  THEN Split(cleaned, "\n", 1)
                  ELSE Split(cleaned, ",", 1)
    IN  SelectSeq([k \in 1..Len(pieces) |-> strip(pieces[k])], NonEmpty)

\* The bot hands the text of a message to parse_participant_list.
CallParseParticipantList ==
    /\ returned' = parse_participant_list(message)
    /\ last' = Outcome("parse_participant_list", "ok", NoGame, <<>>)
    /\ UNCHANGED <<players, pending_games, game_history, supabase, now,
                   k_factor, file, remote, message, bot>>

-----------------------------------------------------------------------------
(* The chat handler of whatsapp_bot_meta.py *)

\* The names of the first ten players as they are typed in a message.
NameText ==
    [n \in Range(Roster10) |->
        CASE n = "John" -> <<"J", "o", "h", "n">>
          [] n = "Mike" -> <<"M", "i", "k", "e">>
          [] n = "Sarah" -> <<"S", "a", "r", "a", "h">>
          [] n = "Tom" -> <<"T", "o", "m">>
          [] n = "Emma" -> <<"E", "m", "m", "a">>
          [] n = "David" -> <<"D", "a", "v", "i", "d">>
          [] n = "Lisa" -> <<"L", "i", "s", "a">>
          [] n = "James" -> <<"J", "a", "m", "e", "s">>
          [] n = "Anna" -> <<"A", "n", "n", "a">>
          [] n = "Chris" -> <<"C", "h", "r", "i", "s">>]

\* The engine's name for the characters of a parsed name (the same Python
\* string): a name of NameText, "john", and an unregistered name for any
\* other token.
StringOf(name) ==
    IF \E n \in DOMAIN NameText : NameText[n] = name
    THEN CHOOSE n \in DOMAIN NameText : NameText[n] = name
    ELSE IF name = <<"j", "o", "h", "n">> THEN "john"
    ELSE "Nobody"

StringsOf(names) == [k \in 1..Len(names) |-> StringOf(names[k])]

\* str.lower() on the characters of the messages.
LowerChar(c) ==
    CASE c = "J" -> "j" [] c = "M" -> "m" [] c = "S" -> "s" [] c = "T" -> "t"
      [] c = "E" -> "e" [] c = "D" -> "d" [] c = "L" -> "l" [] c = "A" -> "a"
      [] c = "C" -> "c" [] c = "R" -> "r" [] OTHER -> c

lower(text) == [i \in 1..Len(text) |-> LowerChar(text[i])]

\* The first position from i on whose character is whitespace.
RECURSIVE WordEnd(_, _)
WordEnd(text, i) ==
    IF i <= Len(text) /\ text[i] \notin Whitespace THEN WordEnd(text, i + 1) ELSE i

\* str.split() of text[i ..]: the words between runs of whitespace.
RECURSIVE Words(_, _)
Words(text, i) ==
    IF SkipWhile(text, i, Whitespace) > Len(text) THEN <<>>
    ELSE <<SubSeq(text, SkipWhile(text, i, Whitespace),
                  WordEnd(text, SkipWhile(text, i, Whitespace)) - 1)>>
            \o Words(text, WordEnd(text, SkipWhile(text, i, Whitespace)))

\* strftime("%Y%m%d_%H%M%S") of the second t, the text of the identifier
\* GameIdAt(t).
GameIdText(t) ==
    <<"1", "9", "7", "0", "0", "1", "0", "1", "_", "0", "0", "0", "0", "0">>
        \o <<DigitOf(t)>>

\* The key a word is in pending_games, NoGame for a word that is the text of
\* no identifier of the model.
GameIdOf(word) ==
    IF \E g \in GameIds : GameIdText(g) = word
    THEN CHOOSE g \in GameIds : GameIdText(g) = word
    ELSE NoGame

\* '_' in word and len(word) > 10
LooksLikeGameId(word) == "_" \in Range(word) /\ Len(word) > 10

\* The loop over the words (lines 324-328): the last word that looks like
\* an identifier and the last other word that parse_score parses, <<>> for
\* None.
RECURSIVE LastGameIdWord(_)
LastGameIdWord(words) ==
    IF words = <<>> THEN <<>>
    ELSE IF LooksLikeGameId(words[Len(words)]) THEN <<words[Len(words)]>>
    ELSE LastGameIdWord(SubSeq(words, 1, Len(words) - 1))

RECURSIVE LastScoreWord(_)
LastScoreWord(words) ==
    IF words = <<>> THEN <<>>
    ELSE IF ~LooksLikeGameId(words[Len(words)]) /\ parse_score(words[Len(words)]) # <<>>
    THEN <<words[Len(words)]>>
    ELSE LastScoreWord(SubSeq(words, 1, Len(words) - 1))

RegistraWords ==
    {<<"r", "e", "g", "i", "s", "t", "r", "a">>,
     <<"m", "a", "n", "u", "a", "l">>,
     <<"m", "a", "n", "u", "a", "l", "e">>}

CancelWords ==
    {<<"a", "n", "n", "u", "l", "l", "a">>, <<"c", "a", "n", "c", "e", "l">>,
     <<"e", "s", "c", "i">>}

\* The commands tested before the manual entry (lines 128-201) and the two
\* that only answer (278, 297): handle_message is modelled for the messages
\* that are none of them.
StartsWith(text, prefix) ==
    Len(text) >= Len(prefix) /\ SubSeq(text, 1, Len(prefix)) = prefix

OtherCommand(msg) ==
    \/ StartsWith(msg, <<"a", "g", "g", "i", "u", "n", "g", "i", " ">>)
    \/ StartsWith(msg, <<"r", "i", "m", "u", "o", "v", "i", " ">>)
    \/ StartsWith(msg, <<"s", "t", "a", "t", "s", " ">>)
    \/ msg \in {<<"h", "e", "l", "p">>, <<"a", "i", "u", "t", "o">>, <<"c", "o", "m", "a", "n", "d", "i">>, <<"s", "t", "a", "r", "t">>, <<"c", "i", "a", "o">>, <<"h", "e", "l", "l", "o">>,
                <<"c", "l", "a", "s", "s", "i", "f", "i", "c", "a">>, <<"l", "e", "a", "d", "e", "r", "b", "o", "a", "r", "d">>, <<"r", "a", "n", "k", "i", "n", "g", "s">>, <<"t", "o", "p">>, <<"r", "a", "n", "k">>,
                <<"i", "n", "a", "t", "t", "e", "s", "a">>, <<"p", "e", "n", "d", "i", "n", "g">>, <<"p", "a", "r", "t", "i", "t", "e">>,
                <<"s", "t", "o", "r", "i", "c", "o">>, <<"h", "i", "s", "t", "o", "r", "y">>, <<"c", "r", "o", "n", "o", "l", "o", "g", "i", "a">>,
                <<"s", "q", "u", "a", "d", "r", "e">>, <<"t", "e", "a", "m", "s">>, <<"t", "e", "a", "m">>, <<"c", "r", "e", "a", " ", "s", "q", "u", "a", "d", "r", "e">>,
                <<"r", "i", "s", "u", "l", "t", "a", "t", "o">>, <<"s", "c", "o", "r", "e">>, <<"r", "e", "s", "u", "l", "t">>, <<"p", "u", "n", "t", "e", "g", "g", "i", "o">>}

\* What update_ratings, record_manual_game and create_teams do to the
\* engine, as values: the kind of the result, the registry and the pending
\* games after the call, the history record (<<>> for none).
UpdateEffect(game_id, team1_score, team2_score) ==
    IF game_id \notin DOMAIN pending_games
    THEN [kind |-> "not_found", players |-> players,
          pending_games |-> pending_games, record |-> <<>>]
    ELSE LET game == pending_games[game_id]
             team1_players == [i \in 1..Len(game.team1) |-> KeyIndex(players, game.team1[i])]
             team2_players == [i \in 1..Len(game.team2) |-> KeyIndex(players, game.team2[i])]
         IN IF 0 \in Range(team1_players) \cup Range(team2_players)
            THEN [kind |-> "KeyError", players |-> players,
                  pending_games |-> pending_games, record |-> <<>>]
            ELSE [kind |-> "ok",
                  players |-> ApplyGame(players, team1_players, team2_players,
                                        team1_score, team2_score),
                  pending_games |-> DictDel(pending_games, game_id),
                  record |-> <<HistoryRecord(game_id, "", game.team1, game.team2,
                                             team1_score, team2_score,
                                             EloSum(players, team1_players),
                                             EloSum(players, team2_players),
                                             update_ratings_winner(team1_score, team2_score))>>]

RecordEffect(team1_names, team2_names, team1_score, team2_score) ==
    IF Len(team1_names) # TeamSize \/ Len(team2_names) # TeamSize
    THEN [kind |-> "validation_error", players |-> players, record |-> <<>>]
    ELSE IF Missing(players, team1_names) \o Missing(players, team2_names) # <<>>
    THEN [kind |-> "not_found", players |-> players, record |-> <<>>]
    ELSE LET team1_players == [i \in 1..Len(team1_names) |-> find_player(players, team1_names[i])]
             team2_players == [i \in 1..Len(team2_names) |-> find_player(players, team2_names[i])]
         IN [kind |-> "ok",
             players |-> ApplyGame(players, team1_players, team2_players,
                                   team1_score, team2_score),
             record |-> <<HistoryRecord(GameIdAt(now), "_manual",
                                        NamesOf(players, team1_players),
                                        NamesOf(players, team2_players),
                                        team1_score, team2_score,
                                        EloSum(players, team1_players),
                                        EloSum(players, team2_players),
                                        record_manual_game_winner(team1_score, team2_score))>>]

CreateEffect(participant_names) ==
    IF Len(participant_names) # NumParticipants
    THEN [kind |-> "validation_error", pending_games |-> pending_games,
          game_id |-> NoGame]
    ELSE IF Missing(players, participant_names) # <<>>
    THEN [kind |-> "not_found", pending_games |-> pending_games, game_id |-> NoGame]
    ELSE LET participants ==
                 [i \in 1..Len(participant_names) |->
                     find_player(players, participant_names[i])]
             sorted == SortByEloDesc(players, participants)
             team1 == Team1Of(sorted)
             team2 == Team2Of(sorted)
             teams == [game_id |-> GameIdAt(now),
                       team1 |-> NamesOf(players, team1),
                       team2 |-> NamesOf(players, team2),
                       team1_avg_elo |-> RoundAvg(EloSum(players, team1), Len(team1)),
                       team2_avg_elo |-> RoundAvg(EloSum(players, team2), Len(team2)),
                       timestamp |-> now]
         IN [kind |-> "ok",
             pending_games |-> DictSet(pending_games, GameIdAt(now), teams),
             game_id |-> GameIdAt(now)]

\* What a branch of handle_message does, as a value: the reply, the engine
\* after the call, whether save_to_file is called, the sessions once the
\* branch has run to its return, the game a reminder is scheduled for.
Reply(kind) ==
    [reply |-> kind, players |-> players, pending_games |-> pending_games,
     record |-> <<>>, saves |-> FALSE, sessions |-> manual_game_sessions,
     schedule |-> <<>>, game_id |-> NoGame]

NewSession == [step |-> "team1", team1 |-> <<>>, team2 |-> <<>>]

\* InSession taking any list of names for a team.
InSession_AnyList(incoming_message, from_number) ==
    LET session == manual_game_sessions[from_number]
        names == parse_participant_list(incoming_message)
        score == parse_score(incoming_message)
    IN IF lower(strip(incoming_message)) \in CancelWords
       THEN [Reply("manual_cancelled") EXCEPT
                !.sessions = DictDel(manual_game_sessions, from_number)]
       ELSE IF session.step = "team1"
       THEN IF Len(names) > 0
            THEN [Reply("team1_registered") EXCEPT
                     !.sessions = DictSet(manual_game_sessions, from_number,
                                          [session EXCEPT !.team1 = StringsOf(names),
                                                          !.step = "team2"])]
            ELSE Reply("team1_refused")
       ELSE IF session.step = "team2"
       THEN IF Len(names) > 0
            THEN [Reply("team2_registered") EXCEPT
                     !.sessions = DictSet(manual_game_sessions, from_number,
                                          [session EXCEPT !.team2 = StringsOf(names),
                                                          !.step = "score"])]
            ELSE Reply("team2_refused")
       ELSE IF session.step = "score"
       THEN IF score # <<>>
            THEN LET result == RecordEffect(session.team1, session.team2,
                                            score[1], score[2])
                 IN [Reply("manual_" \o result.kind) EXCEPT
                        !.players = result.players,
                        !.record = result.record,
                        !.saves = TRUE,
                        !.sessions = DictDel(manual_game_sessions, from_number)]
            ELSE Reply("score_refused")
       ELSE Reply("not_understood")

\* Lines 218-275: the sender has a session.
InSession(incoming_message, from_number) ==
    LET session == manual_game_sessions[from_number]
        names == parse_participant_list(incoming_message)
        score == parse_score(incoming_message)
    IN IF lower(strip(incoming_message)) \in CancelWords
       THEN [Reply("manual_cancelled") EXCEPT
                !.sessions = DictDel(manual_game_sessions, from_number)]
       ELSE IF session.step = "team1"
       THEN IF Len(names) = TeamSize
            THEN [Reply("team1_registered") EXCEPT
                     !.sessions = DictSet(manual_game_sessions, from_number,
                                          [session EXCEPT !.team1 = StringsOf(names),
                                                          !.step = "team2"])]
            ELSE Reply("team1_refused")
       ELSE IF session.step = "team2"
       THEN IF Len(names) = TeamSize
            THEN [Reply("team2_registered") EXCEPT
                     !.sessions = DictSet(manual_game_sessions, from_number,
                                          [session EXCEPT !.team2 = StringsOf(names),
                                                          !.step = "score"])]
            ELSE Reply("team2_refused")
       ELSE IF session.step = "score"
       THEN IF score # <<>>
            THEN LET result == RecordEffect(session.team1, session.team2,
                                            score[1], score[2])
                 IN [Reply("manual_" \o result.kind) EXCEPT
                        !.players = result.players,
                        !.record = result.record,
                        !.saves = TRUE,
                        !.sessions = DictDel(manual_game_sessions, from_number)]
            ELSE Reply("score_refused")
       ELSE Reply("not_understood")

\* Lines 304-314: the message has a newline or a comma.
AsParticipantList(incoming_message) ==
    LET names == parse_participant_list(incoming_message)
        result == CreateEffect(StringsOf(names))
    IN IF Len(names) = NumParticipants
       THEN IF result.kind = "ok"
            THEN [Reply("teams_created") EXCEPT
                     !.pending_games = result.pending_games,
                     !.saves = TRUE,
                     !.schedule = <<result.game_id>>,
                     !.game_id = result.game_id]
            ELSE Reply("teams_" \o result.kind)
       ELSE IF Len(names) > 0 THEN Reply("count_refused")
       ELSE Reply("not_understood")

Finalizing(game_id, score) ==
    LET result == UpdateEffect(game_id, score[1], score[2])
    IN [Reply(result.kind) EXCEPT
           !.players = result.players,
           !.pending_games = result.pending_games,
           !.record = result.record,
           !.saves = result.kind # "KeyError",
           !.game_id = game_id]

\* list(balancer.pending_games.keys())[0] of a dict with one key
OnlyPending == CHOOSE g \in DOMAIN pending_games : TRUE

\* AsScore taking a pending game whenever there is one.
AsScore_AnyPending(incoming_message) ==
    LET words == Words(incoming_message, 1)
        id_word == LastGameIdWord(words)
        score_str == LastScoreWord(words)
        some == Cardinality(DOMAIN pending_games) >= 1
        game_id == IF id_word # <<>> THEN <<GameIdOf(id_word[1])>>
                   ELSE IF some THEN <<OnlyPending>>
                   ELSE <<>>
        score == parse_score(incoming_message)
    IN IF game_id # <<>> /\ score_str # <<>>
       THEN Finalizing(game_id[1], parse_score(score_str[1]))
       ELSE IF score # <<>> /\ some
       THEN Finalizing(OnlyPending, score)
       ELSE Reply("score_not_understood")

\* Lines 317-349: the message has a hyphen or a space, and a digit.
AsScore(incoming_message) ==
    LET words == Words(incoming_message, 1)
        id_word == LastGameIdWord(words)
        score_str == LastScoreWord(words)
        one == Cardinality(DOMAIN pending_games) = 1
        game_id == IF id_word # <<>> THEN <<GameIdOf(id_word[1])>>
                   ELSE IF one THEN <<OnlyPending>>
                   ELSE <<>>
        score == parse_score(incoming_message)
    IN IF game_id # <<>> /\ score_str # <<>>
       THEN Finalizing(game_id[1], parse_score(score_str[1]))
       ELSE IF score # <<>> /\ one
       THEN Finalizing(OnlyPending, score)
       ELSE Reply("score_not_understood")

\* handle_message from line 203 on, as a value.
Handled(incoming_message, from_number) ==
    LET msg == lower(strip(incoming_message))
    IN IF msg \in RegistraWords
       THEN [Reply("manual_started") EXCEPT
                !.sessions = DictSet(manual_game_sessions, from_number, NewSession)]
       ELSE IF from_number \in DOMAIN manual_game_sessions
       THEN InSession(incoming_message, from_number)
       ELSE IF "\n" \in Range(incoming_message) \/ "," \in Range(incoming_message)
       THEN AsParticipantList(incoming_message)
       ELSE IF Range(msg) \cap {"-", " "} # {} /\ Range(msg) \cap Digits # {}
       THEN AsScore(incoming_message)
       ELSE Reply("not_understood")

\* How the save_to_file of a branch ends: on the remote store, on the local
\* file, or in the AttributeError of _save_to_local_file.
SaveOutcomes(saves) ==
    IF ~saves THEN {"none"}
    ELSE (IF supabase THEN {"remote"} ELSE {})
            \cup {IF k_factor = <<>> THEN "AttributeError" ELSE "local"}

\* handle_message (lines 122-352) with what it calls: the engine, then
\* save_to_file, then what the branch does after the save: the session is
\* removed, the reminder is scheduled (schedule_score_request, lines
\* 101-119; add_job raises ConflictingIdError for an id that has a job).
handle_message(incoming_message, from_number) ==
    /\ ~OtherCommand(lower(strip(incoming_message)))
    /\ \E branch \in {Handled(incoming_message, from_number)} :
          /\ players' = branch.players
          /\ pending_games' = branch.pending_games
          /\ \E inserted \in InsertOutcomes :
                game_history' = IF branch.record # <<>> /\ supabase /\ inserted
                                THEN Append(game_history, branch.record[1])
                                ELSE game_history
          /\ \E outcome \in SaveOutcomes(branch.saves) :
                LET saved == outcome # "AttributeError"
                    schedules == saved /\ branch.schedule # <<>>
                    conflict == schedules /\ branch.schedule[1] \in DOMAIN scheduler
                IN /\ file' = IF outcome = "local"
                               THEN <<FileOf(branch.players, branch.pending_games,
                                             k_factor[1])>>
                               ELSE file
                   /\ remote' = IF outcome = "remote"
                                 THEN [players |-> UpsertAll(remote.players,
                                                             RowsOf(branch.players), 1),
                                       pending_games |-> branch.pending_games]
                                 ELSE remote
                   /\ manual_game_sessions' = IF saved THEN branch.sessions
                                              ELSE manual_game_sessions
                   /\ scheduler' = IF schedules /\ ~conflict
                                    THEN DictSet(scheduler, branch.schedule[1],
                                                 [to |-> from_number, since |-> now])
                                    ELSE scheduler
                   /\ game_reminders' = IF schedules /\ ~conflict
                                         THEN DictSet(game_reminders, branch.schedule[1],
                                                      from_number)
                                         ELSE game_reminders
                   /\ last' = Outcome("handle_message",
                                      IF ~saved THEN "AttributeError"
                                      ELSE IF conflict THEN "ConflictingIdError"
                                      ELSE branch.reply,
                                      branch.game_id, <<>>)
    /\ message' = incoming_message
    /\ UNCHANGED <<supabase, now, k_factor, returned, threads, running, preemptions,
                   delivered>>

\* send_reminder, the job schedule_score_request adds for a game: run once,
\* at a later time, whatever has become of the game.
send_reminder(game_id) ==
    /\ game_id \in DOMAIN scheduler
    /\ now > scheduler[game_id].since
    /\ delivered' = Append(delivered, [to |-> scheduler[game_id].to,
                                       game_id |-> game_id])
    /\ scheduler' = DictDel(scheduler, game_id)
    /\ last' = Outcome("send_reminder", "ok", game_id, <<>>)
    /\ UNCHANGED <<players, pending_games, game_history, supabase, now, k_factor,
                   file, remote, message, returned, threads, running, preemptions,
                   manual_game_sessions, game_reminders>>

-----------------------------------------------------------------------------
\* The registry positions the names of a list resolve to.
Resolved(names) == [i \in 1..Len(names) |-> find_player(players, names[i])]

\* The registry positions update_ratings looks the names of a roster up at.
LookedUp(names) == [i \in 1..Len(names) |-> KeyIndex(players, names[i])]

\* A roster name of the pending game g that is no key of the registry.
RosterNames(game) == Range(game.team1) \cup Range(game.team2)

HasRemovedPlayer(g) ==
    /\ g \in DOMAIN pending_games
    /\ RosterNames(pending_games[g]) \ Keys(players) # {}

\* The environment creates, finalizes and records a game only while every
\* participant of it has played fewer than MaxGamesPlayed games; calls that
\* end in an error are not restricted.
MayCreate(names) ==
    (Len(names) = NumParticipants /\ Missing(players, names) = <<>>)
       => MayPlay(players, Resolved(names))

MayFinalize(g) ==
    (g \in DOMAIN pending_games /\ ~HasRemovedPlayer(g))
       => MayPlay(players, LookedUp(pending_games[g].team1 \o pending_games[g].team2))

MayRecord(team1_names, team2_names) ==
    (/\ Len(team1_names) = TeamSize /\ Len(team2_names) = TeamSize
     /\ Missing(players, team1_names \o team2_names) = <<>>)
       => MayPlay(players, Resolved(team1_names \o team2_names))

Init ==
    /\ players = <<>>
    /\ pending_games = [g \in {} |-> NoTeams]
    /\ game_history = <<>>
    /\ supabase \in BOOLEAN
    /\ now = 0
    /\ last = Outcome("init", "ok", NoGame, <<>>)
    /\ k_factor = <<>>
    /\ file = <<>>
    /\ remote = EmptyRemote
    /\ message = <<>>
    /\ returned = <<>>
    /\ BotIdle

Next ==
    \/ \E n \in Offered(players) : \E v \in AddVotes(n) : add_player(n, v)
    \/ \E n \in RemoveNames : remove_player(n)
    \/ \E l \in ParticipantLists : MayCreate(l) /\ create_teams(l)
    \/ \E g \in GameIds : \E s \in Scores :
          MayFinalize(g) /\ update_ratings(g, s[1], s[2])
    \/ \E r \in ManualRosters : \E s \in Scores :
          MayRecord(r[1], r[2]) /\ record_manual_game(r[1], r[2], s[1], s[2])
    \/ \E g \in GameIds : delete_pending_game(g)
    \/ Tick

Spec == Init /\ [][Next]_vars

\* An engine that has loaded ten players and one pending game of theirs from
\* its file (load_from_file): the ratings and the games played of each team
\* are drawn from the lists below, the first five players are team 1.  The
\* game is then finalized with any score of up to MaxSideGoals goals a side.
TeamRatings ==
    { <<1500, 1500, 1500, 1500, 1500>>,
      <<1900, 1700, 1500, 1300, 1100>>,
      <<2000, 2000, 1000, 1250, 1250>>,
      <<1600, 1599, 1400, 1399, 1502>>,
      <<1888, 1666, 1666, 1555, 1444>>,
      <<1777, 1777, 1666, 1555, 1444>>,
      <<1000, 1000, 1000, 1000, 1000>>,
      <<2000, 2000, 2000, 2000, 2000>> }

TeamGames == { <<0, 0, 0, 0, 0>>, <<9, 10, 19, 20, 35>> }

LoadedPlayers(ratings, games) ==
    [i \in 1..NumParticipants |->
        [name |-> NameOrder[i], elo |-> ratings[i], games_played |-> games[i],
         wins |-> 0, losses |-> 0]]

LoadedGame(ratings) ==
    [game_id |-> GameIdAt(0),
     team1 |-> SubSeq(NameOrder, 1, TeamSize),
     team2 |-> SubSeq(NameOrder, TeamSize + 1, NumParticipants),
     team1_avg_elo |-> RoundAvg(SumSeq(SubSeq(ratings, 1, TeamSize)), TeamSize),
     team2_avg_elo |-> RoundAvg(SumSeq(SubSeq(ratings, TeamSize + 1, NumParticipants)),
                                TeamSize),
     timestamp |-> 0]

RatingInit ==
    \E r1 \in TeamRatings : \E r2 \in TeamRatings :
    \E g1 \in TeamGames : \E g2 \in TeamGames :
        /\ players = LoadedPlayers(r1 \o r2, g1 \o g2)
        /\ pending_games = (GameIdAt(0) :> LoadedGame(r1 \o r2))
        /\ game_history = <<>>
        /\ supabase \in BOOLEAN
        /\ now = 0
        /\ last = Outcome("load_from_file", "ok", NoGame, <<>>)
        /\ k_factor = IF supabase THEN <<>> ELSE <<base_k_factor>>
        /\ file = IF supabase THEN <<>>
                  ELSE <<FileOf(LoadedPlayers(r1 \o r2, g1 \o g2),
                                (GameIdAt(0) :> LoadedGame(r1 \o r2)),
                                base_k_factor)>>
        /\ remote = IF supabase
                    THEN [players |-> RowsOf(LoadedPlayers(r1 \o r2, g1 \o g2)),
                          pending_games |-> (GameIdAt(0) :> LoadedGame(r1 \o r2))]
                    ELSE EmptyRemote
        /\ message = <<>>
        /\ returned = <<>>
        /\ BotIdle

RatingScores == (0..MaxSideGoals) \X (0..MaxSideGoals)

RatingNext ==
    \E g \in GameIds : \E s \in RatingScores : update_ratings(g, s[1], s[2])

RatingSpec == RatingInit /\ [][RatingNext]_vars

\* add_player alone, with every vote from 0 to 11, on a small registry.
VoteNames == {"John", "Mike", " Tom ", "john"}

VoteNext ==
    \E n \in VoteNames : \E v \in 0..11 :
        Len(players) < MaxVoted /\ add_player(n, v)

VoteSpec == Init /\ [][VoteNext]_vars

-----------------------------------------------------------------------------
(* The parsers alone, on the messages below *)

\* Every text of up to MaxTextLen characters over an alphabet.
TextsOver(alphabet) == UNION {[1..n -> alphabet] : n \in 0..MaxTextLen}

ScoreAlphabet == {"5", "3", " ", "-", ":", "x"}

ListAlphabet == {"a", " ", ",", "\n", "1", ".", "-"}

\* str(n) for n >= 0.
RECURSIVE Decimal(_)
Decimal(n) ==
    IF n < 10 THEN <<DigitOf(n)>> ELSE Decimal(n \div 10) \o <<DigitOf(n % 10)>>

\* "team1: A, team2: B"
Labelled(A, B) ==
    <<"t", "e", "a", "m", "1", ":", " ">> \o Decimal(A)
        \o <<",", " ", "t", "e", "a", "m", "2", ":", " ">> \o Decimal(B)

LabelScores == {0, 2, 3, 5, 12}

NoDigitsHere ==
    <<"n", "o", " ", "d", "i", "g", "i", "t", "s", " ", "h", "e", "r", "e">>

\* Names a list may hold: none is empty or has a comma, a newline, a space
\* at either end, or an ordinal or a bullet at its start.
ListNames ==
    { <<"A", "l">>, <<"B">>, <<"J", " ", "R">>, <<"7", "u", "p">>,
      <<"a", "-", "b">> }

NameLists == UNION {[1..n -> ListNames] : n \in 0..MaxNames}

RECURSIVE Join(_, _)
Join(pieces, sep) ==
    IF pieces = <<>> THEN <<>>
    ELSE IF Len(pieces) = 1 THEN pieces[1]
    ELSE pieces[1] \o sep \o Join(Tail(pieces), sep)

ListFormats == {"commas", "commas and spaces", "lines", "N.", "N)", "-", "bullet"}

\* What is written before the k-th name of a list.
Prefix(format, k) ==
    CASE format = "N." -> Decimal(k) \o <<".", " ">>
      [] format = "N)" -> Decimal(k) \o <<")", " ">>
      [] format = "-" -> <<"-", " ">>
      [] format = "bullet" -> <<Bullet, " ">>
      [] OTHER -> <<>>

\* A list of names written out as a message.
Render(names, format) ==
    Join([k \in 1..Len(names) |-> Prefix(format, k) \o names[k]],
         CASE format = "commas" -> <<",">>
           [] format = "commas and spaces" -> <<",", " ">>
           [] OTHER -> <<"\n">>)

Messages ==
    TextsOver(ScoreAlphabet) \cup TextsOver(ListAlphabet)
        \cup {Labelled(A, B) : A \in LabelScores, B \in LabelScores}
        \cup {NoDigitsHere}
        \cup {Render(names, format) : names \in NameLists, format \in ListFormats}

ParseInit ==
    /\ players = <<>>
    /\ pending_games = [g \in {} |-> NoTeams]
    /\ game_history = <<>>
    /\ supabase = FALSE
    /\ now = 0
    /\ last = Outcome("init", "ok", NoGame, <<>>)
    /\ k_factor = <<>>
    /\ file = <<>>
    /\ remote = EmptyRemote
    /\ message \in Messages
    /\ returned = <<>>
    /\ BotIdle

ParseNext == CallParseScore \/ CallParseParticipantList

ParseSpec == ParseInit /\ [][ParseNext]_vars

-----------------------------------------------------------------------------
(* Saving and loading *)

\* A file written by an engine that had loaded its data: ten players, none
\* of whom has played, and one pending game of theirs.
SeedRatings == <<1888, 1666, 1666, 1555, 1444, 1777, 1777, 1666, 1555, 1444>>

SeedFile ==
    FileOf(LoadedPlayers(SeedRatings, [i \in 1..NumParticipants |-> 0]),
           (GameIdAt(0) :> LoadedGame(SeedRatings)), base_k_factor)

\* A new engine, with or without a file left by an earlier run.
PersistInit ==
    /\ players = <<>>
    /\ pending_games = <<>>
    /\ game_history = <<>>
    /\ supabase \in BOOLEAN
    /\ now = 0
    /\ last = Outcome("init", "ok", NoGame, <<>>)
    /\ k_factor = <<>>
    /\ file \in {<<>>, <<SeedFile>>}
    /\ remote = EmptyRemote
    /\ message = <<>>
    /\ returned = <<>>
    /\ BotIdle

PersistNext ==
    \/ \E v \in {1, 10} : add_player("Alex", v)
    \/ remove_player("Alex")
    \/ \E g \in GameIds : \E s \in Scores :
          /\ MayFinalize(g)
          /\ Len(game_history) < MaxGamesPlayed
          /\ update_ratings(g, s[1], s[2])
    \/ save_to_file
    \/ load_from_file
    \/ NewEngine

PersistSpec == PersistInit /\ [][PersistNext]_vars

-----------------------------------------------------------------------------
(* The bot's engine: the operations and the parsers on a loaded registry *)

FrameMessages ==
    { <<"5", "-", "3">>,
      Render(<<<<"A", "l">>, <<"B">>>>, "N.") }

\* An engine that has loaded the file above, and a message to be parsed.
FrameInit ==
    /\ players = PlayersOf(SeedFile.players)
    /\ pending_games = SeedFile.pending_games
    /\ game_history = <<>>
    /\ supabase = FALSE
    /\ now = 0
    /\ last = Outcome("load_from_file", "ok", NoGame, <<>>)
    /\ k_factor = <<SeedFile.k_factor>>
    /\ file = <<SeedFile>>
    /\ remote = EmptyRemote
    /\ message \in FrameMessages
    /\ returned = <<>>
    /\ BotIdle

FrameNext ==
    \/ \E n \in Offered(players) : \E v \in AddVotes(n) : add_player(n, v)
    \/ \E n \in RemoveNames : remove_player(n)
    \/ \E l \in ParticipantLists : MayCreate(l) /\ create_teams(l)
    \/ \E g \in GameIds : \E s \in Scores :
          MayFinalize(g) /\ update_ratings(g, s[1], s[2])
    \/ \E g \in GameIds : delete_pending_game(g)
    \/ CallParseScore
    \/ CallParseParticipantList
    \/ Tick

FrameSpec == FrameInit /\ [][FrameNext]_vars

-----------------------------------------------------------------------------
(* The leaderboard of a loaded registry *)

BoardSizes == {0, 1, 3, NumParticipants}

BoardLimits == (-1)..MaxLimit

\* An engine that has loaded the first players of a registry of the ratings
\* above.
BoardInit ==
    \E r1 \in TeamRatings : \E r2 \in TeamRatings : \E n \in BoardSizes :
        /\ players = SubSeq(LoadedPlayers(r1 \o r2, [i \in 1..NumParticipants |-> 0]), 1, n)
        /\ pending_games = <<>>
        /\ game_history = <<>>
        /\ supabase = FALSE
        /\ now = 0
        /\ last = Outcome("load_from_file", "ok", NoGame, <<>>)
        /\ k_factor = <<base_k_factor>>
        /\ file = <<FileOf(players, pending_games, base_k_factor)>>
        /\ remote = EmptyRemote
        /\ message = <<>>
        /\ returned = <<>>
        /\ BotIdle

BoardNext == \E limit \in BoardLimits : CallGetLeaderboard(limit)

BoardSpec == BoardInit /\ [][BoardNext]_vars

-----------------------------------------------------------------------------
(* Two pending games of the same players *)

\* The return match of the loaded game, created a second later with the
\* sides exchanged.
LoadedRematch(ratings) ==
    [game_id |-> GameIdAt(1),
     team1 |-> SubSeq(NameOrder, TeamSize + 1, NumParticipants),
     team2 |-> SubSeq(NameOrder, 1, TeamSize),
     team1_avg_elo |-> RoundAvg(SumSeq(SubSeq(ratings, TeamSize + 1, NumParticipants)),
                                TeamSize),
     team2_avg_elo |-> RoundAvg(SumSeq(SubSeq(ratings, 1, TeamSize)), TeamSize),
     timestamp |-> 1]

\* An engine that has loaded ten players who have not played and the two
\* games; the games are then finalized in either order.
DriftInit ==
    \E r1 \in TeamRatings : \E r2 \in TeamRatings :
        /\ players = LoadedPlayers(r1 \o r2, [i \in 1..NumParticipants |-> 0])
        /\ pending_games = (GameIdAt(0) :> LoadedGame(r1 \o r2))
                              @@ (GameIdAt(1) :> LoadedRematch(r1 \o r2))
        /\ game_history = <<>>
        /\ supabase = FALSE
        /\ now = 1
        /\ last = Outcome("load_from_file", "ok", NoGame, <<>>)
        /\ k_factor = <<base_k_factor>>
        /\ file = <<FileOf(players, pending_games, base_k_factor)>>
        /\ remote = EmptyRemote
        /\ message = <<>>
        /\ returned = <<>>
        /\ BotIdle

DriftNext ==
    \E g \in GameIds : \E s \in RatingScores : update_ratings(g, s[1], s[2])

DriftSpec == DriftInit /\ [][DriftNext]_vars

-----------------------------------------------------------------------------
(* Requests served by threads *)

\* app.run serves every request on a thread of its own and nothing in the
\* handlers or in the engine takes a lock, so update_ratings calls run
\* interleaved.  The points at which the model lets a thread be suspended
\* are: before the call, between computing a player's new rating and
\* assigning it (line 336 / 353), between loading games_played and storing
\* it (337 / 354), between two players, before the history record and the
\* del (363-374), and before save_to_file.  A thread in the middle of a
\* request is suspended in favour of another at most MaxPreemptions times.
MaxPreemptions == 1

Serving(t) == threads[t].pc \notin {"idle", "done"}

Scheduled(t) ==
    LET preempts == running \notin {0, t} /\ Serving(running)
    IN /\ preempts => preemptions < MaxPreemptions
       /\ running' = t
       /\ preemptions' = IF preempts THEN preemptions + 1 ELSE preemptions

ThreadFrame ==
    UNCHANGED <<game_history, supabase, now, k_factor, remote, message, returned,
                manual_game_sessions, scheduler, game_reminders, delivered>>

\* api_record_score calls update_ratings: the check that the game is
\* pending, the lookup of the Player objects, and the averages (lines
\* 289-322).
UpdateBegin(t, game_id, team1_score, team2_score) ==
    /\ threads[t].pc = "idle"
    /\ Scheduled(t)
    /\ IF game_id \notin DOMAIN pending_games
       THEN threads' = [threads EXCEPT ![t] =
                [IdleThread EXCEPT !.pc = "save", !.game_id = game_id,
                                   !.result = "not_found"]]
       ELSE LET game == pending_games[game_id]
                team1_players == [i \in 1..Len(game.team1) |-> KeyIndex(players, game.team1[i])]
                team2_players == [i \in 1..Len(game.team2) |-> KeyIndex(players, game.team2[i])]
            IN IF 0 \in Range(team1_players) \cup Range(team2_players)
               THEN threads' = [threads EXCEPT ![t] =
                        [IdleThread EXCEPT !.pc = "done", !.game_id = game_id,
                                           !.result = "KeyError"]]
               ELSE threads' = [threads EXCEPT ![t] =
                        [pc |-> "read", game_id |-> game_id,
                         team1_score |-> team1_score, team2_score |-> team2_score,
                         team1 |-> game.team1, team2 |-> game.team2,
                         idx |-> team1_players \o team2_players,
                         sum1 |-> EloSum(players, team1_players),
                         sum2 |-> EloSum(players, team2_players),
                         n |-> 1, tmp |-> 0, result |-> ""]]
    /\ last' = Outcome("update_ratings", "begin", game_id, <<>>)
    /\ UNCHANGED <<players, pending_games, file>>
    /\ ThreadFrame

\* The Player record one iteration of the loops leaves for the player the
\* thread is at, from the Player object as it is now.
Iteration(th) ==
    LET first == th.n <= Len(th.team1)
        own_sum == IF first THEN th.sum1 ELSE th.sum2
        other_sum == IF first THEN th.sum2 ELSE th.sum1
        own == IF first THEN th.team1_score ELSE th.team2_score
        other == IF first THEN th.team2_score ELSE th.team1_score
    IN UpdatedPlayer(players[th.idx[th.n]], own_sum, TeamResult(own, other),
                     Expected(own_sum, other_sum),
                     goal_multiplier(th.team1_score, th.team2_score))

\* int(player.elo + change) is evaluated (lines 328-336, 345-353).
UpdateRead(t) ==
    /\ threads[t].pc = "read"
    /\ Scheduled(t)
    /\ threads' = [threads EXCEPT ![t].pc = "store",
                                  ![t].tmp = Iteration(threads[t]).elo]
    /\ last' = Outcome("update_ratings", "read", threads[t].game_id, <<>>)
    /\ UNCHANGED <<players, pending_games, file>>
    /\ ThreadFrame

\* player.elo is assigned and games_played is loaded (lines 336-337).
UpdateStore(t) ==
    /\ threads[t].pc = "store"
    /\ Scheduled(t)
    /\ players' = [players EXCEPT ![threads[t].idx[threads[t].n]].elo = threads[t].tmp]
    /\ threads' = [threads EXCEPT
                      ![t].pc = "count",
                      ![t].tmp = players[threads[t].idx[threads[t].n]].games_played]
    /\ last' = Outcome("update_ratings", "store", threads[t].game_id, <<>>)
    /\ UNCHANGED <<pending_games, file>>
    /\ ThreadFrame

\* games_played is stored, wins or losses is counted (lines 337-341), and
\* the loop goes on to its next player.
UpdateCount(t) ==
    /\ threads[t].pc = "count"
    /\ Scheduled(t)
    /\ players' = [players EXCEPT ![threads[t].idx[threads[t].n]] =
                      [@ EXCEPT !.games_played = threads[t].tmp + 1,
                                !.wins = Iteration(threads[t]).wins,
                                !.losses = Iteration(threads[t]).losses]]
    /\ threads' = [threads EXCEPT
                      ![t].pc = IF threads[t].n = Len(threads[t].idx)
                                THEN "finish" ELSE "read",
                      ![t].n = @ + 1]
    /\ last' = Outcome("update_ratings", "count", threads[t].game_id, <<>>)
    /\ UNCHANGED <<pending_games, file>>
    /\ ThreadFrame

\* The history record and del self.pending_games[game_id] (lines 362-374);
\* the del raises KeyError when the key is gone, and the exception leaves
\* api_record_score before it saves.
UpdateFinish(t) ==
    /\ threads[t].pc = "finish"
    /\ Scheduled(t)
    /\ IF threads[t].game_id \notin DOMAIN pending_games
       THEN /\ threads' = [threads EXCEPT ![t].pc = "done", ![t].result = "KeyError"]
            /\ last' = Outcome("update_ratings", "KeyError", threads[t].game_id, <<>>)
            /\ pending_games' = pending_games
       ELSE /\ threads' = [threads EXCEPT ![t].pc = "save", ![t].result = "ok"]
            /\ last' = Outcome("update_ratings", "ok", threads[t].game_id, <<>>)
            /\ pending_games' = DictDel(pending_games, threads[t].game_id)
    /\ UNCHANGED <<players, file>>
    /\ ThreadFrame

\* balancer.save_to_file() of api_record_score (line 580), to the local file.
RecordScoreSave(t) ==
    /\ threads[t].pc = "save"
    /\ Scheduled(t)
    /\ file' = <<FileOf(players, pending_games, k_factor[1])>>
    /\ threads' = [threads EXCEPT ![t].pc = "done"]
    /\ last' = Outcome("save_to_file", "ok", threads[t].game_id, <<>>)
    /\ UNCHANGED <<players, pending_games>>
    /\ ThreadFrame

\* The engine has loaded ten players who have not played, a game and its
\* return match; each thread serves one record-score request.
ThreadRatings == <<1900, 1700, 1500, 1300, 1100, 1600, 1599, 1400, 1399, 1502>>

ThreadPlayers == LoadedPlayers(ThreadRatings, [i \in 1..NumParticipants |-> 0])

ThreadGames ==
    (GameIdAt(0) :> LoadedGame(ThreadRatings))
       @@ (GameIdAt(1) :> LoadedRematch(ThreadRatings))

ThreadInit ==
    /\ players = ThreadPlayers
    /\ pending_games = ThreadGames
    /\ game_history = <<>>
    /\ supabase = FALSE
    /\ now = 1
    /\ last = Outcome("load_from_file", "ok", NoGame, <<>>)
    /\ k_factor = <<base_k_factor>>
    /\ file = <<FileOf(ThreadPlayers, ThreadGames, base_k_factor)>>
    /\ remote = EmptyRemote
    /\ message = <<>>
    /\ returned = <<>>
    /\ BotIdle

ThreadNext ==
    \E t \in Threads :
        \/ \E g \in GameIds : \E s \in Scores : UpdateBegin(t, g, s[1], s[2])
        \/ UpdateRead(t)
        \/ UpdateStore(t)
        \/ UpdateCount(t)
        \/ UpdateFinish(t)
        \/ RecordScoreSave(t)

ThreadSpec == ThreadInit /\ [][ThreadNext]_vars

-----------------------------------------------------------------------------
(* The chat: two senders, the messages they send, the reminders *)

Senders == {"391", "392"}

\* A list of names as a sender types it, separated by commas.
ListText(names) == Join([k \in 1..Len(names) |-> NameText[names[k]]], <<",">>)

TeamAText == ListText(SubSeq(Roster10, 1, TeamSize))
TeamBText == ListText(SubSeq(Roster10, TeamSize + 1, NumParticipants))
RosterText == ListText(Roster10)

ScoreTexts ==
    {<<"5", "-", "3">>, <<"5", " ", "3">>, <<"5", ":", "3">>}

\* The messages of the chat with one sender: lists, scores with and without
\* the identifier of a game, the start of a manual entry.
ChatMessages ==
    {RosterText, TeamAText, TeamBText,
     <<"r", "e", "g", "i", "s", "t", "r", "a">>,
     <<"b", "o", "h">>,
     GameIdText(0) \o << " " >> \o <<"3", "-", "5">>}
        \cup ScoreTexts

\* The messages of the manual entries of two senders.
SessionMessages ==
    {<<"r", "e", "g", "i", "s", "t", "r", "a">>, <<"a", "n", "n", "u", "l", "l", "a">>,
     TeamAText, TeamBText,
     <<"5", "-", "3">>, <<"b", "o", "h">>}

SessionInit ==
    /\ players = LoadedPlayers(ThreadRatings, [i \in 1..NumParticipants |-> 0])
    /\ pending_games = <<>>
    /\ game_history = <<>>
    /\ supabase \in BOOLEAN
    /\ now = 0
    /\ last = Outcome("load_from_file", "ok", NoGame, <<>>)
    /\ k_factor = IF supabase THEN <<>> ELSE <<base_k_factor>>
    /\ file = IF supabase THEN <<>>
              ELSE <<FileOf(LoadedPlayers(ThreadRatings, [i \in 1..NumParticipants |-> 0]),
                            <<>>, base_k_factor)>>
    /\ remote = IF supabase
                THEN [players |-> RowsOf(LoadedPlayers(ThreadRatings,
                                                       [i \in 1..NumParticipants |-> 0])),
                      pending_games |-> <<>>]
                ELSE EmptyRemote
    /\ message = <<>>
    /\ returned = <<>>
    /\ BotIdle

\* The chat of an engine that keeps its data in the local file.
ChatInit == SessionInit /\ ~supabase

\* The games of the model stop at MaxGamesPlayed games a player.
WithinGames == \A i \in 1..Len(players) : players'[i].games_played <= MaxGamesPlayed

ChatSender == "391"

ChatNext ==
    \/ \E m \in ChatMessages : handle_message(m, ChatSender) /\ WithinGames
    \/ \E g \in GameIds : send_reminder(g)
    \/ Tick

ChatSpec == ChatInit /\ [][ChatNext]_vars

SessionNext ==
    \E m \in SessionMessages : \E p \in Senders : handle_message(m, p) /\ WithinGames

SessionSpec == SessionInit /\ [][SessionNext]_vars

-----------------------------------------------------------------------------
(* Participant lists that name a player twice *)

\* Lists of ten registered names as parse_participant_list hands them to
\* create_teams: all different, one name twice, one name in two spellings,
\* two names twice.
RepeatedLists ==
    { Roster10,
      <<"John", "John">> \o SubSeq(NameOrder, 3, 10),
      <<"John", "john">> \o SubSeq(NameOrder, 3, 10),
      SubSeq(NameOrder, 1, 8) \o <<"Mike", "Tom">> }

\* An engine that has loaded ten players who have not played; lists are then
\* turned into teams and the games finalized.
RepeatInit ==
    \E r \in TeamRatings :
        /\ players = LoadedPlayers(r \o r, [i \in 1..NumParticipants |-> 0])
        /\ pending_games = [g \in {} |-> NoTeams]
        /\ game_history = <<>>
        /\ supabase = FALSE
        /\ now = 0
        /\ last = Outcome("load_from_file", "ok", NoGame, <<>>)
        /\ k_factor = <<base_k_factor>>
        /\ file = <<FileOf(players, pending_games, base_k_factor)>>
        /\ remote = EmptyRemote
        /\ message = <<>>
        /\ returned = <<>>
        /\ BotIdle

RepeatNext ==
    \/ \E l \in RepeatedLists : MayCreate(l) /\ create_teams(l)
    \/ \E g \in GameIds : \E s \in Scores :
          MayFinalize(g) /\ update_ratings(g, s[1], s[2])
    \/ Tick

RepeatSpec == RepeatInit /\ [][RepeatNext]_vars

-----------------------------------------------------------------------------
(* Vocabulary of the properties *)

\* The step just taken was a call of op that returned kind.
Returned(op, kind) == last'.op = op /\ last'.kind = kind

\* The registry entry of a name (exact key), where there is one.
\* Every entry keeps its place, name, rating and counters.
SameRegistry == players' = players

Finalized(g) ==
    \E i \in 1..Len(game_history) :
        game_history[i].game_id = g /\ game_history[i].suffix = ""

-----------------------------------------------------------------------------
\* C1: a pending game is consumed exactly once.  A successful update_ratings
\* of a game id takes a pending game and leaves the id out of the pending
\* set; only create_teams puts an id (back) into the pending set; and
\* update_ratings of an id that is not pending returns not-found and changes
\* no player.
C1_ConsumedOnce ==
    [][\A g \in GameIds :
         /\ (Returned("update_ratings", "ok") /\ last'.game_id = g)
               => g \in DOMAIN pending_games /\ g \notin DOMAIN pending_games'
         /\ (g \notin DOMAIN pending_games /\ g \in DOMAIN pending_games')
               => last'.op = "create_teams"
         /\ (last'.op = "update_ratings" /\ last'.game_id = g
               /\ g \notin DOMAIN pending_games)
               => last'.kind = "not_found" /\ SameRegistry]_vars

\* A second update_ratings of a game id whose first one is in the history.
C1_Witness ==
    /\ last.op = "update_ratings"
    /\ last.kind = "not_found"
    /\ Finalized(last.game_id)

\* The kinds of result an operation returns to its caller; a raised Python
\* exception (kind "KeyError") is none of them.
ReturnedKinds == {"ok", "validation_error", "duplicate_error", "not_found",
                  "consistency_error"}

\* C2: update_ratings of a pending game one of whose roster players is no
\* longer in the registry returns a consistency error to its caller: an error
\* result of the operation, distinct from the not-found result.
C2_ConsistencyErrorReported ==
    [][\A g \in GameIds :
         (last'.op = "update_ratings" /\ last'.game_id = g /\ HasRemovedPlayer(g))
            => last'.kind \in ReturnedKinds \ {"ok", "not_found"}]_vars

\* What the lookup self.players[name] gives instead: the call is left by
\* the exception before any player, pending game or history record is changed.
RemovedPlayerRaises ==
    [][\A g \in GameIds :
         (last'.op = "update_ratings" /\ last'.game_id = g /\ HasRemovedPlayer(g))
            => /\ last'.kind = "KeyError"
               /\ SameRegistry
               /\ pending_games' = pending_games
               /\ game_history' = game_history]_vars

\* update_ratings has just failed on a still pending game with a removed player.
RemovedPlayerRaised ==
    /\ last.op = "update_ratings"
    /\ last.kind = "KeyError"
    /\ HasRemovedPlayer(last.game_id)

OnTeam(p, team) == p.name \in Range(team)

\* The counters a finalization has to leave on the player p of a game with
\* the given rosters and score.
ExpectedCounters(p, team1, team2, s1, s2) ==
    IF OnTeam(p, team1)
    THEN <<p.games_played + 1,
           p.wins + (IF s1 > s2 THEN 1 ELSE 0),
           p.losses + (IF s1 < s2 THEN 1 ELSE 0)>>
    ELSE IF OnTeam(p, team2)
    THEN <<p.games_played + 1,
           p.wins + (IF s2 > s1 THEN 1 ELSE 0),
           p.losses + (IF s2 < s1 THEN 1 ELSE 0)>>
    ELSE <<p.games_played, p.wins, p.losses>>

Distinct(names) == Cardinality(Range(names)) = Len(names)

\* C3: a successful update_ratings(g, s1, s2) of a game with ten distinct
\* roster players adds one to games_played of each of the ten, one to wins of
\* exactly the players of the side with more goals, one to losses of exactly
\* the players of the side with fewer goals, nothing to wins or losses on a
\* draw, and leaves every player outside the rosters as it was.
C3_FinalizeCounters ==
    [][\A g \in GameIds : \A s \in Scores :
         (Returned("update_ratings", "ok") /\ update_ratings(g, s[1], s[2])
             /\ Distinct(pending_games[g].team1 \o pending_games[g].team2))
            => /\ Len(players') = Len(players)
               /\ \A i \in 1..Len(players) :
                    /\ players'[i].name = players[i].name
                    /\ <<players'[i].games_played, players'[i].wins,
                         players'[i].losses>>
                         = ExpectedCounters(players[i], pending_games[g].team1,
                                            pending_games[g].team2, s[1], s[2])
                    /\ (players[i].name \notin RosterNames(pending_games[g])
                          => players'[i] = players[i])]_vars

\* A decisive game has just been finalized with a player outside its
\* rosters in the registry.
C3_Witness ==
    /\ last.op = "update_ratings"
    /\ last.kind = "ok"
    /\ \E i \in 1..Len(players) : players[i].wins = 1
    /\ \E i \in 1..Len(players) : players[i].losses = 1
    /\ \E i \in 1..Len(players) : players[i].games_played = 0

\* C4: every player has non-negative counters with wins + losses <=
\* games_played.
C4_CountersInvariant ==
    \A i \in 1..Len(players) :
        /\ players[i].games_played >= 0
        /\ players[i].wins >= 0
        /\ players[i].losses >= 0
        /\ players[i].wins + players[i].losses <= players[i].games_played

\* After a drawn game: a player with a game that is neither won nor lost.
C4_Witness ==
    \E i \in 1..Len(players) :
        players[i].games_played = 1 /\ players[i].wins + players[i].losses = 0

\* The name, stripped, is the name of a registered player but for case.
Matches(name) == \E p \in Keys(players) : Lower(p) = Lower(Strip(name))

UniqueNames(ps) ==
    \A i \in 1..Len(ps) : \A j \in 1..(i - 1) :
        Lower(ps[i].name) # Lower(ps[j].name)

\* C5: no two registry entries have names that are equal when compared
\* case-insensitively, and add_player with a vote in 1..10 and a name that
\* case-insensitively matches an existing player returns the duplicate error
\* and leaves the registry unchanged.
C5_UniqueNames ==
    [][/\ UniqueNames(players) => UniqueNames(players')
       /\ \A n \in AddNames : \A v \in AddVotes(n) \cap (1..10) :
            (last'.op = "add_player" /\ Matches(n) /\ add_player(n, v))
               => Returned("add_player", "duplicate_error") /\ SameRegistry]_vars

\* add_player has just refused "john" or " Tom " next to the registered player.
C5_Witness ==
    /\ last.op = "add_player"
    /\ last.kind = "duplicate_error"
    /\ Len(players) >= 4

\* C5 as stated: add_player of a name that case-insensitively matches an
\* existing player returns the duplicate error, whatever the vote.
C5_AsStated ==
    [][/\ UniqueNames(players) => UniqueNames(players')
       /\ \A n \in AddNames : \A v \in AddVotes(n) :
            (last'.op = "add_player" /\ Matches(n) /\ add_player(n, v))
               => Returned("add_player", "duplicate_error") /\ SameRegistry]_vars

\* C6: add_player with a vote outside 1..10 returns the validation error and
\* leaves the registry exactly as it was.
C6_VoteRange ==
    [][\A n \in AddNames : \A v \in AddVotes(n) \ (1..10) :
         (last'.op = "add_player" /\ add_player(n, v))
            => Returned("add_player", "validation_error") /\ SameRegistry]_vars

\* A vote out of range has just been refused for a name that is not registered.
C6_Witness ==
    /\ last.op = "add_player"
    /\ last.kind = "validation_error"
    /\ Len(players) \in 1..(Len(NameOrder) - 1)

\* The names of a list that match no registry entry, in the order of the list.
Unmatched(names) ==
    LET F[k \in 0..Len(names)] ==
          IF k = 0 THEN <<>>
          ELSE IF \E p \in Keys(players) : Lower(p) = Lower(names[k])
               THEN F[k - 1]
               ELSE Append(F[k - 1], names[k])
    IN F[Len(names)]

\* C7: create_teams returns the validation error when the number of names is
\* not ten, and otherwise, when some name matches no player, the not-found
\* error listing every unmatched name in input order; in both cases no
\* pending game is stored and no player is changed.
C7_CreateTeamsErrors ==
    [][\A l \in ParticipantLists :
         (last'.op = "create_teams" /\ create_teams(l)) =>
            IF Len(l) # 10
            THEN /\ Returned("create_teams", "validation_error")
                 /\ pending_games' = pending_games /\ SameRegistry
            ELSE IF Unmatched(l) # <<>>
            THEN /\ Returned("create_teams", "not_found")
                 /\ last'.missing = Unmatched(l)
                 /\ pending_games' = pending_games /\ SameRegistry
            ELSE Returned("create_teams", "ok")]_vars

\* Two names of a list of ten have just been reported, eight were found.
C7_Witness ==
    /\ last.op = "create_teams"
    /\ last.kind = "not_found"
    /\ last.missing = <<"Nobody", "Ghost">>

\* A sequence of registry positions in descending order of rating.
Descending(idx) ==
    \A i \in 1..(Len(idx) - 1) : players[idx[i]].elo >= players[idx[i + 1]].elo

\* C8: with the ten resolved players in descending order of rating
\* (positions 0..9), a successful create_teams stores as team 1 exactly the
\* players at positions 0, 3, 4, 7, 8 and as team 2 exactly those at
\* positions 1, 2, 5, 6, 9: five names each.
C8_SnakeDraft ==
    [][\A l \in ParticipantLists :
         (Returned("create_teams", "ok") /\ create_teams(l)) =>
            LET S == SortByEloDesc(players, Resolved(l))
                N == NamesOf(players, S)
                game == pending_games'[last'.game_id]
            IN /\ Len(S) = 10 /\ Descending(S)
               /\ game.team1 = <<N[1], N[4], N[5], N[8], N[9]>>
               /\ game.team2 = <<N[2], N[3], N[6], N[7], N[10]>>]_vars

\* Teams have just been drafted from ten players.
C8_Witness ==
    /\ last.op = "create_teams"
    /\ last.kind = "ok"
    /\ last.game_id \in DOMAIN pending_games
    /\ pending_games[last.game_id].team1 = <<"Tom", "John", "David", "Lisa", "Emma">>

\* C9: every successful create_teams stores its game under an identifier
\* that is not in the pending set: the number of pending games grows by one
\* and every game that was pending is left as it was.
C9_FreshIdentifier ==
    [][Returned("create_teams", "ok")
         => /\ last'.game_id \notin DOMAIN pending_games
            /\ Cardinality(DOMAIN pending_games')
                 = Cardinality(DOMAIN pending_games) + 1
            /\ \A g \in DOMAIN pending_games :
                 g \in DOMAIN pending_games' /\ pending_games'[g] = pending_games[g]]_vars

\* C10: every successful update_ratings or record_manual_game appends
\* exactly one record to the game history, and no step removes or alters a
\* record of the history.
C10_HistoryAppended ==
    [][/\ Len(game_history') >= Len(game_history)
       /\ SubSeq(game_history', 1, Len(game_history)) = game_history
       /\ (last'.op \in {"update_ratings", "record_manual_game"} /\ last'.kind = "ok")
             => Len(game_history') = Len(game_history) + 1]_vars

\* C11: delete_pending_game of a pending game removes exactly that entry,
\* changes no player and appends no history record; for an identifier that is
\* not pending it returns the not-found error and changes nothing.
C11_Cancel ==
    [][\A g \in GameIds :
         (last'.op = "delete_pending_game" /\ last'.game_id = g)
            => /\ SameRegistry
               /\ game_history' = game_history
               /\ IF g \in DOMAIN pending_games
                  THEN /\ last'.kind = "ok"
                       /\ DOMAIN pending_games' = DOMAIN pending_games \ {g}
                       /\ \A h \in DOMAIN pending_games' :
                            pending_games'[h] = pending_games[h]
                  ELSE /\ last'.kind = "not_found"
                       /\ pending_games' = pending_games]_vars

\* A game has just been cancelled while another one stays pending.
C11_Witness ==
    /\ last.op = "delete_pending_game"
    /\ last.kind = "ok"
    /\ last.game_id \notin DOMAIN pending_games
    /\ DOMAIN pending_games # {}

\* Five names, no two of them equal but for case.
FiveDistinct(names) ==
    /\ Len(names) = TeamSize
    /\ \A i, j \in 1..Len(names) : Lower(names[i]) = Lower(names[j]) => i = j

\* C12: record_manual_game returns the validation error and changes no
\* player unless each of the two rosters consists of exactly five names that
\* are distinct when compared case-insensitively (stated for rosters whose
\* names are all registered, where no not-found error stands in the way).
C12_ManualRostersValidated ==
    [][\A r \in ManualRosters : \A s \in Scores :
         (/\ last'.op = "record_manual_game"
          /\ ~(FiveDistinct(r[1]) /\ FiveDistinct(r[2]))
          /\ Missing(players, r[1] \o r[2]) = <<>>
          /\ record_manual_game(r[1], r[2], s[1], s[2]))
            => Returned("record_manual_game", "validation_error") /\ SameRegistry]_vars

\* C13: record_manual_game never adds, removes or changes an entry of the
\* pending games, whether it succeeds or fails.
C13_ManualLeavesPending ==
    [][last'.op = "record_manual_game" => pending_games' = pending_games]_vars

\* A manual game has just been recorded while a game created in the same
\* second is pending.
C13_Witness ==
    /\ last.op = "record_manual_game"
    /\ last.kind = "ok"
    /\ GameIdAt(now) \in DOMAIN pending_games

\* C14: from the same registry, record_manual_game with the rosters of a
\* pending game and update_ratings of that game, with the same score, give
\* every player the same rating, games_played, wins and losses and declare
\* the same winner.
C14_SamePipeline ==
    \A g \in DOMAIN pending_games : \A s \in Scores :
        ~HasRemovedPlayer(g)
           => /\ ApplyGame(players, LookedUp(pending_games[g].team1),
                           LookedUp(pending_games[g].team2), s[1], s[2])
                   = ApplyGame(players, Resolved(pending_games[g].team1),
                               Resolved(pending_games[g].team2), s[1], s[2])
              /\ update_ratings_winner(s[1], s[2])
                   = record_manual_game_winner(s[1], s[2])

\* The part of it that holds: the registries agree.
SamePipelineRatings ==
    \A g \in DOMAIN pending_games : \A s \in Scores :
        ~HasRemovedPlayer(g)
           => ApplyGame(players, LookedUp(pending_games[g].team1),
                        LookedUp(pending_games[g].team2), s[1], s[2])
                = ApplyGame(players, Resolved(pending_games[g].team1),
                            Resolved(pending_games[g].team2), s[1], s[2])

\* C15: update_ratings with a game identifier that is not pending returns
\* the not-found error and leaves every player, the pending games and the
\* history unchanged.
C15_UnknownGame ==
    [][\A g \in GameIds :
         (last'.op = "update_ratings" /\ last'.game_id = g
             /\ g \notin DOMAIN pending_games)
            => /\ last'.kind = "not_found"
               /\ SameRegistry
               /\ pending_games' = pending_games
               /\ game_history' = game_history]_vars

\* An identifier has just been refused while another game is pending.
C15_Witness ==
    /\ last.op = "update_ratings"
    /\ last.kind = "not_found"
    /\ DOMAIN pending_games # {}
    /\ last.game_id \notin DOMAIN pending_games

\* 1000 + (v - 1) * 1000 / 9 without its fraction, for v = 1, ..., 10.
VoteRating == <<1000, 1111, 1222, 1333, 1444, 1555, 1666, 1777, 1888, 2000>>

TenAdded ==
    /\ last.op = "add_player"
    /\ last.kind = "ok"
    /\ Len(players) = 10
    /\ \A i \in 1..10 : players[i].name = NameOrder[i]
    /\ <<7, 8, 6, 9, 5, 7, 6, 8, 5, 7>> = [i \in 1..10 |-> VoteOf[NameOrder[i]]]

RatingsOf(ps) == [i \in 1..Len(ps) |-> ps[i].elo]

RosterSum(names) == EloSum(players, LookedUp(names))

\* C18: when the two rosters have equal average rating and the score is a
\* draw, a successful update_ratings leaves the rating of every player
\* unchanged, whatever the ratings and games played of the single players.
C18_EvenDraw ==
    [][\A g \in GameIds : \A s \in RatingScores :
         (/\ Returned("update_ratings", "ok")
          /\ last'.game_id = g
          /\ s[1] = s[2]
          /\ RosterSum(pending_games[g].team1) = RosterSum(pending_games[g].team2)
          /\ update_ratings(g, s[1], s[2]))
            => RatingsOf(players') = RatingsOf(players)]_vars

\* A drawn game between teams of equal average and unequal players, some of
\* them experienced, has just been finalized.
C18_Witness ==
    /\ last.op = "update_ratings"
    /\ last.kind = "ok"
    /\ \A i \in 1..Len(players) : players[i].wins = 0 /\ players[i].losses = 0
    /\ RatingsOf(players)
         = <<1900, 1700, 1500, 1300, 1100, 2000, 2000, 1000, 1250, 1250>>
    /\ players[5].games_played = 36

\* The rating change of the player at registry position i of a roster whose
\* side scores own goals against other, before truncation, over WeightDen.
Delta(i, own_names, other_names, own, other) ==
    Change(players[i], RosterSum(own_names), TeamResult(own, other),
           Expected(RosterSum(own_names), RosterSum(other_names)),
           goal_multiplier(own, other))

\* The score of the same winner by one goal.
MarginOne(own, other) ==
    IF own > other THEN <<other + 1, other>> ELSE <<own, own + 1>>

\* The step has applied the change at the score given, and that change is
\* larger than the one at a margin of 1 unless the latter is zero.
LargerAtMarginTwo(i, own_names, other_names, own, other) ==
    LET d2 == Delta(i, own_names, other_names, own, other)
        d1 == Delta(i, own_names, other_names,
                    MarginOne(own, other)[1], MarginOne(own, other)[2])
    IN /\ players'[i].elo = TruncDiv(players[i].elo * WeightDen + d2, WeightDen)
       /\ d1 # 0 => Abs(d2) > Abs(d1)

\* C19: for the rosters of a pending game, the registry as it is and either
\* winning side, every player whose rating change k * goal_multiplier *
\* weight * (result - expected) is not zero at a goal margin of 1 has a
\* change of strictly larger magnitude at a goal margin of 2, which is the
\* change update_ratings applies for a score with that margin.
C19_MarginTwo ==
    [][\A g \in GameIds : \A s \in RatingScores :
         (/\ Returned("update_ratings", "ok")
          /\ last'.game_id = g
          /\ Abs(s[1] - s[2]) = 2
          /\ update_ratings(g, s[1], s[2]))
            => LET game == pending_games[g]
               IN /\ \A n \in 1..Len(game.team1) :
                       LargerAtMarginTwo(KeyIndex(players, game.team1[n]),
                                         game.team1, game.team2, s[1], s[2])
                  /\ \A n \in 1..Len(game.team2) :
                       LargerAtMarginTwo(KeyIndex(players, game.team2[n]),
                                         game.team2, game.team1, s[2], s[1])]_vars

\* The far weaker team has just won by two goals, and every rating moved.
C19_Witness ==
    /\ last.op = "update_ratings"
    /\ last.kind = "ok"
    /\ Len(game_history) = 1
    /\ game_history[1].team1_score = 0 /\ game_history[1].team2_score = 2
    /\ \A i \in 1..5 : players[i].elo < 2000
    /\ \A i \in 6..10 : players[i].elo > 1000

\* The place (from 0) of the i-th name of a list in the descending order of
\* rating that keeps players of equal rating in the order of the list: the
\* number of listed players rated higher, or rated the same and listed
\* earlier.
StablePlace(names, i) ==
    Cardinality({j \in 1..Len(names) :
        \/ players[Resolved(names)[j]].elo > players[Resolved(names)[i]].elo
        \/ /\ players[Resolved(names)[j]].elo = players[Resolved(names)[i]].elo
           /\ j < i})

\* The registry name of the listed player at that place.
NameAtPlace(names, place) ==
    players[Resolved(names)[CHOOSE i \in 1..Len(names) :
                               StablePlace(names, i) = place]].name

\* C20: the rosters a successful create_teams stores are a function of the
\* list of names and of the ratings of the players listed alone: team 1 is
\* the players at places 0, 3, 4, 7, 8 and team 2 those at places 1, 2, 5, 6,
\* 9 of the descending order of rating in which players of equal rating keep
\* the order of the list, so that two calls with the same list and the same
\* ratings store the same rosters.
C20_Deterministic ==
    [][\A l \in ParticipantLists :
         (Returned("create_teams", "ok") /\ create_teams(l)) =>
            LET game == pending_games'[last'.game_id]
            IN /\ game.team1 = [k \in 1..5 |->
                                  NameAtPlace(l, <<0, 3, 4, 7, 8>>[k])]
               /\ game.team2 = [k \in 1..5 |->
                                  NameAtPlace(l, <<1, 2, 5, 6, 9>>[k])]]_vars

\* Two calls, a second apart, have stored the same rosters, and players of
\* equal rating are in them in the order of the list and not of the registry.
C20_Witness ==
    /\ last.op = "create_teams"
    /\ last.kind = "ok"
    /\ DOMAIN pending_games = {GameIdAt(0), GameIdAt(1)}
    /\ pending_games[GameIdAt(0)].team1 = pending_games[GameIdAt(1)].team1
    /\ pending_games[GameIdAt(0)].team2 = pending_games[GameIdAt(1)].team2
    /\ pending_games[GameIdAt(1)].team1 = <<"Tom", "Chris", "David", "Sarah", "Anna">>

\* Whether every character of text[from .. to] is of the class.
AllIn(text, from, to, class) == \A k \in from..to : text[k] \in class

\* text[i .. a] is an integer, text[c .. d] is an integer that no digit
\* follows, and between them are whitespace, one '-' or ':', whitespace.
HyphenOccurrence(text, i, a, c, d) ==
    /\ i <= a /\ a < c /\ c <= d
    /\ AllIn(text, i, a, Digits)
    /\ AllIn(text, c, d, Digits)
    /\ d = Len(text) \/ text[d + 1] \notin Digits
    /\ \E b \in (a + 1)..(c - 1) :
          /\ text[b] \in {"-", ":"}
          /\ AllIn(text, a + 1, b - 1, Whitespace)
          /\ AllIn(text, b + 1, c - 1, Whitespace)

\* The same with at least one whitespace and nothing else between them.
SpaceOccurrence(text, i, a, c, d) ==
    /\ i <= a /\ a + 1 < c /\ c <= d
    /\ AllIn(text, i, a, Digits)
    /\ AllIn(text, c, d, Digits)
    /\ d = Len(text) \/ text[d + 1] \notin Digits
    /\ AllIn(text, a + 1, c - 1, Whitespace)

Places(text) == (1..Len(text)) \X (1..Len(text)) \X (1..Len(text)) \X (1..Len(text))

HyphenOccurrences(text) ==
    {q \in Places(text) : HyphenOccurrence(text, q[1], q[2], q[3], q[4])}

SpaceOccurrences(text) ==
    {q \in Places(text) : SpaceOccurrence(text, q[1], q[2], q[3], q[4])}

\* The pairs of integers of the occurrences that start first.
FirstPairs(text, occurrences) ==
    {<<IntOf(text, q[1], q[2] + 1), IntOf(text, q[3], q[4] + 1)>> :
        q \in {o \in occurrences : \A other \in occurrences : o[1] <= other[1]}}

\* C21: parse_score returns the pair of the first occurrence of "integer,
\* optional whitespace, - or :, optional whitespace, integer" when the text
\* has one anywhere, otherwise the pair of the first "integer, whitespace,
\* integer", and nothing when it has neither; "5-3" and "5 3" give (5, 3) and
\* a text without digits gives nothing.
C21_ParseScore ==
    last.op = "parse_score" =>
        /\ IF HyphenOccurrences(message) # {}
           THEN FirstPairs(message, HyphenOccurrences(message)) = {returned}
           ELSE IF SpaceOccurrences(message) # {}
           THEN FirstPairs(message, SpaceOccurrences(message)) = {returned}
           ELSE returned = <<>>
        /\ message \in {<<"5", "-", "3">>, <<"5", " ", "3">>} => returned = <<5, 3>>
        /\ Range(message) \cap Digits = {} => returned = <<>>

\* A text whose first "integer, whitespace, integer" starts before its first
\* hyphen form has been parsed, and the hyphen form was returned.
C21_Witness ==
    /\ last.op = "parse_score"
    /\ message = <<"5", " ", "3", "-", "5">>
    /\ returned = <<3, 5>>

\* C22: for a text "team1: A, team2: B" parse_score returns (A, B).
C22_Labelled ==
    \A A \in LabelScores : \A B \in LabelScores :
        (last.op = "parse_score" /\ message = Labelled(A, B))
            => returned = <<A, B>>

\* What parse_score returns for it: the 1 of "team1" and A.
C22_LabelledReturnsOneAndA ==
    \A A \in LabelScores : \A B \in LabelScores :
        (last.op = "parse_score" /\ message = Labelled(A, B))
            => returned = <<1, A>>

C22_LabelledParsed ==
    /\ last.op = "parse_score"
    /\ message = Labelled(5, 3)
    /\ returned = <<1, 5>>

\* Every list of names with every way of writing it out.
Rendered ==
    {<<names, Render(names, format)>> : names \in NameLists, format \in ListFormats}

RenderedTexts == {r[2] : r \in Rendered}

\* C23: parse_participant_list returns exactly the list of names that was
\* written out, in order and with duplicates kept, whether the names are
\* joined by commas, written one per line, or one per line after "N.", "N)",
\* "-" or a bullet; and whatever the message, no name it returns is empty or
\* has whitespace at either end.
C23_ParticipantList ==
    last.op = "parse_participant_list" =>
        /\ message \in RenderedTexts =>
              \A r \in Rendered : message = r[2] => returned = r[1]
        /\ \A k \in 1..Len(returned) :
              /\ returned[k] # <<>>
              /\ returned[k][1] \notin Whitespace
              /\ returned[k][Len(returned[k])] \notin Whitespace

\* A numbered list with a name twice and a name that starts with a digit has
\* been parsed.
C23_Witness ==
    /\ last.op = "parse_participant_list"
    /\ message = Render(<<<<"7", "u", "p">>, <<"J", " ", "R">>, <<"7", "u", "p">>>>, "N.")
    /\ returned = <<<<"7", "u", "p">>, <<"J", " ", "R">>, <<"7", "u", "p">>>>

\* C24: without a remote store save_to_file succeeds on any engine, and
\* what load_from_file makes of the file it wrote is the players (name,
\* rating, games_played, wins, losses) and the pending games of the engine
\* that saved.
C24_SaveLoadRoundTrip ==
    (~supabase /\ last.op = "save_to_file") =>
        /\ last.kind = "ok"
        /\ file # <<>>
        /\ PlayersOf(file[1].players) = players
        /\ file[1].pending_games = pending_games

\* The round trip alone: it holds of every save that succeeded.
C24_RoundTripOfSuccessfulSave ==
    (~supabase /\ last.op = "save_to_file" /\ last.kind = "ok") =>
        /\ file # <<>>
        /\ PlayersOf(file[1].players) = players
        /\ file[1].pending_games = pending_games

\* A saved engine whose players have played and which has no pending game.
C24_SavedAfterGame ==
    /\ ~supabase
    /\ last.op = "save_to_file"
    /\ last.kind = "ok"
    /\ Len(players) = 11
    /\ players[1].games_played = 1
    /\ pending_games = <<>>

\* An engine that never loaded a file has no k_factor attribute and its
\* save raises.
C24_SaveRaised ==
    /\ ~supabase
    /\ last.op = "save_to_file"
    /\ last.kind = "AttributeError"
    /\ players # <<>>
    /\ file = <<>>

\* Every player who is in the registry before and after the step has the
\* record he had.
SurvivorsUnchanged ==
    \A i \in 1..Len(players) : \A j \in 1..Len(players') :
        players'[j].name = players[i].name => players'[j] = players[i]

\* C25: a step that is not a successful finalization leaves the rating,
\* games_played, wins and losses of every existing player as they were;
\* add_player, create_teams, cancel and the parsers keep every existing
\* record; remove_player deletes the record whose name matches without
\* regard to case, and no other, and leaves the pending games and the history
\* as they were.
C25_Frame ==
    [][/\ ~(last'.op \in {"update_ratings", "record_manual_game"} /\ last'.kind = "ok")
             => SurvivorsUnchanged
       /\ last'.op \in {"add_player", "create_teams", "delete_pending_game",
                        "parse_score", "parse_participant_list"}
             => /\ Len(players') >= Len(players)
                /\ SubSeq(players', 1, Len(players)) = players
       /\ \A n \in RemoveNames :
             (last'.op = "remove_player" /\ remove_player(n)) =>
                /\ pending_games' = pending_games
                /\ game_history' = game_history
                /\ LET Other(p) == Lower(p.name) # Lower(n)
                   IN  players' = SelectSeq(players, Other)]_vars

\* A player has been removed under another spelling of his name while a game
\* was pending, after a parser had run.
C25_Witness ==
    /\ last.op = "remove_player"
    /\ last.kind = "ok"
    /\ Len(players) = NumParticipants
    /\ pending_games # <<>>
    /\ returned # <<>>

\* The number of players listed before the i-th of the registry: those of a
\* higher rating and those of the same rating registered earlier.
Ahead(i) ==
    Cardinality({j \in 1..Len(players) :
        \/ players[j].elo > players[i].elo
        \/ players[j].elo = players[i].elo /\ j < i})

\* C26: for every limit >= 0 get_leaderboard lists min(limit, number of
\* players) players, in descending order of rating and, where ratings are
\* equal, in the order of registration.
C26_Leaderboard ==
    [][\A limit \in BoardLimits :
         (last'.op = "get_leaderboard" /\ limit >= 0 /\ CallGetLeaderboard(limit)) =>
            /\ Len(returned'.rows) = Min(limit, Len(players))
            /\ \A k \in 1..Len(returned'.rows) :
                  \E i \in 1..Len(players) :
                      Ahead(i) = k - 1 /\ returned'.rows[k] = players[i]]_vars

\* A board of three rows has been cut out of ten players among whom two of
\* the first three have the same rating.
C26_Witness ==
    /\ last.op = "get_leaderboard"
    /\ Len(players) = NumParticipants
    /\ Len(returned.rows) = 3
    /\ returned.rows[1].elo = returned.rows[2].elo
    /\ returned.rows[2].elo > returned.rows[3].elo
    /\ returned.rows[1].name = "John"
    /\ returned.rows[2].name = "David"

\* 0, 1, 2 for games_played < 10, 10..19, >= 20 and for rating < 1400,
\* 1400..1599, >= 1600.
ExperienceBand(player) ==
    IF player.games_played < 10 THEN 1 ELSE IF player.games_played <= 19 THEN 2 ELSE 3

RatingBand(player) ==
    IF player.elo < 1400 THEN 1 ELSE IF player.elo <= 1599 THEN 2 ELSE 3

\* The K-factor as stated: the entry of the table for the player's bands,
\* which is truncate(base * experience multiplier * rating multiplier) with
\* the multipliers 1.2, 1.0, 0.85 and 1.2, 1.0, 0.8 in hundredths.
StatedK(player) ==
    LET table == <<<<46, 38, 30>>, <<38, 32, 25>>, <<32, 27, 21>>>>
    IN  table[ExperienceBand(player)][RatingBand(player)]

StatedKIsTheProduct(player) ==
    StatedK(player) =
        TruncDiv(base_k_factor * <<120, 100, 85>>[ExperienceBand(player)]
                               * <<120, 100, 80>>[RatingBand(player)], 10000)

\* The rating of the player at registry position i after a game, computed
\* with the stated K-factor of the player as he is before the game.
RatingWithStatedK(i, own_names, other_names, own, other) ==
    LET base_change == TeamResult(own, other)
                          - Expected(RosterSum(own_names), RosterSum(other_names))
        m == MulFix(StatedK(players[i]) * goal_multiplier(own, other)
                       * get_performance_weight(players[i].elo, RosterSum(own_names),
                                                own > other),
                    Abs(base_change))
    IN  TruncDiv(players[i].elo * WeightDen + (IF base_change >= 0 THEN m ELSE -m),
                 WeightDen)

\* C27: the K-factor update_ratings applies to a player is the entry 46, 38,
\* 30 / 38, 32, 25 / 32, 27, 21 for his games played (< 10, 10..19, >= 20)
\* and rating (< 1400, 1400..1599, >= 1600) before the game, which is
\* truncate(32 * experience multiplier * rating multiplier).
C27_KFactor ==
    [][\A g \in GameIds : \A s \in RatingScores :
         (/\ Returned("update_ratings", "ok")
          /\ last'.game_id = g
          /\ update_ratings(g, s[1], s[2]))
            => LET game == pending_games[g]
               IN /\ \A n \in 1..Len(game.team1) :
                       LET i == KeyIndex(players, game.team1[n])
                       IN /\ StatedKIsTheProduct(players[i])
                          /\ players'[i].elo =
                                RatingWithStatedK(i, game.team1, game.team2, s[1], s[2])
                  /\ \A n \in 1..Len(game.team2) :
                       LET i == KeyIndex(players, game.team2[n])
                       IN /\ StatedKIsTheProduct(players[i])
                          /\ players'[i].elo =
                                RatingWithStatedK(i, game.team2, game.team1, s[2], s[1])]_vars

\* A player of rating 2000 with 20 games has won by one goal against a team
\* of the same average: he gained truncate(21 * 0.5).
C27_Witness ==
    /\ last.op = "update_ratings"
    /\ last.kind = "ok"
    /\ players[4].games_played = 21
    /\ players[4].wins = 1
    /\ players[4].elo = 2010

\* The weight as stated, in 1/20000: 1 -/+ 0.15 * (rating - average) / 200
\* with average = sum / 5 is (20000 -/+ 3 * (5 * rating - sum)) / 20000; it
\* is taken as it is between 0.7 and 1.3 and is the nearer of the two
\* outside.
StatedWeight(i, own_names, own, other) ==
    LET excess == 3 * (TeamSize * players[i].elo - RosterSum(own_names))
        raw == IF own > other THEN 20000 - excess ELSE 20000 + excess
    IN  IF raw < 14000 THEN 14000 ELSE IF raw > 26000 THEN 26000 ELSE raw

\* The rating of the player at registry position i after a game, computed
\* with the stated weight.
RatingWithStatedWeight(i, own_names, other_names, own, other) ==
    LET base_change == TeamResult(own, other)
                          - Expected(RosterSum(own_names), RosterSum(other_names))
        m == MulFix(get_player_k_factor(players[i]) * goal_multiplier(own, other)
                       * StatedWeight(i, own_names, own, other),
                    Abs(base_change))
    IN  TruncDiv(players[i].elo * WeightDen + (IF base_change >= 0 THEN m ELSE -m),
                 WeightDen)

\* C28: the performance weight update_ratings applies to a player is
\* 1 - 0.15 * (rating - team average) / 200 if his team won and
\* 1 + 0.15 * (rating - team average) / 200 if it lost or drew, limited to
\* the interval from 0.7 to 1.3.
C28_PerformanceWeight ==
    [][\A g \in GameIds : \A s \in RatingScores :
         (/\ Returned("update_ratings", "ok")
          /\ last'.game_id = g
          /\ update_ratings(g, s[1], s[2]))
            => LET game == pending_games[g]
               IN /\ \A n \in 1..Len(game.team1) :
                       LET i == KeyIndex(players, game.team1[n])
                       IN players'[i].elo =
                             RatingWithStatedWeight(i, game.team1, game.team2, s[1], s[2])
                  /\ \A n \in 1..Len(game.team2) :
                       LET i == KeyIndex(players, game.team2[n])
                       IN players'[i].elo =
                             RatingWithStatedWeight(i, game.team2, game.team1, s[2], s[1])]_vars

\* Players 500 points above and below their team's average have won and lost
\* by one goal against a team like theirs: the weights were 0.7 and 1.3 on
\* the winning side and 1.3 and 0.7 on the losing side.
C28_Witness ==
    /\ last.op = "update_ratings"
    /\ last.kind = "ok"
    /\ RatingsOf(players)
         = <<2010, 2010, 1029, 1277, 1277, 1980, 1980, 983, 1231, 1231>>
    /\ players[1].games_played = 1

\* Whether the integer n is the rational num / WeightDen with its fraction
\* cut off: n is between 0 and num / WeightDen and less than 1 away from it.
IsTruncationOf(n, num) ==
    IF num >= 0
    THEN n * WeightDen <= num /\ num < (n + 1) * WeightDen
    ELSE (n - 1) * WeightDen < num /\ num <= n * WeightDen

\* The step has stored old rating + change, cut to an integer, for the player
\* at registry position i.
StoredTruncated(i, own_names, other_names, own, other) ==
    /\ players'[i].elo \in Int
    /\ IsTruncationOf(players'[i].elo,
                      players[i].elo * WeightDen
                         + Delta(i, own_names, other_names, own, other))

\* C29: a successful update_ratings sets the rating of every roster player
\* to old rating + change with the fraction cut off, not rounded to the
\* nearest integer, so that the rating stored is an integer.
C29_Truncated ==
    [][\A g \in GameIds : \A s \in RatingScores :
         (/\ Returned("update_ratings", "ok")
          /\ last'.game_id = g
          /\ update_ratings(g, s[1], s[2]))
            => LET game == pending_games[g]
               IN /\ \A n \in 1..Len(game.team1) :
                       StoredTruncated(KeyIndex(players, game.team1[n]),
                                       game.team1, game.team2, s[1], s[2])
                  /\ \A n \in 1..Len(game.team2) :
                       StoredTruncated(KeyIndex(players, game.team2[n]),
                                       game.team2, game.team1, s[2], s[1])]_vars

\* Ten players of rating 2000 have played 1-0: for those with 10 games
\* 2000 + 12.5 is stored as 2012 and 2000 - 12.5 = 1987.5 as 1987, for those
\* with 20 games 2000 + 10.5 as 2010 and 2000 - 10.5 = 1989.5 as 1989.
C29_Witness ==
    /\ last.op = "update_ratings"
    /\ last.kind = "ok"
    /\ RatingsOf(players)
         = <<2015, 2012, 2012, 2010, 2010, 1985, 1987, 1987, 1989, 1989>>

\* The step has stored, for the player at registry position i, the rating
\* that follows from the sums of the ratings the rosters have in the registry
\* before the step.
FromRegistry(i, own_names, other_names, own, other) ==
    players'[i].elo =
        TruncDiv(players[i].elo * WeightDen
                    + Change(players[i], RosterSum(own_names), TeamResult(own, other),
                             Expected(RosterSum(own_names), RosterSum(other_names)),
                             goal_multiplier(own, other)),
                 WeightDen)

\* C30: update_ratings takes the averages of the two teams, and the expected
\* outcomes that follow from them, from the ratings the roster players have
\* in the registry when the game is finalized, not from the averages stored
\* in the pending game; the ratings another game has changed in between are
\* the ones used.
C30_AveragesAtFinalize ==
    [][\A g \in GameIds : \A s \in RatingScores :
         (/\ Returned("update_ratings", "ok")
          /\ last'.game_id = g
          /\ update_ratings(g, s[1], s[2]))
            => LET game == pending_games[g]
               IN /\ \A n \in 1..Len(game.team1) :
                       FromRegistry(KeyIndex(players, game.team1[n]),
                                    game.team1, game.team2, s[1], s[2])
                  /\ \A n \in 1..Len(game.team2) :
                       FromRegistry(KeyIndex(players, game.team2[n]),
                                    game.team2, game.team1, s[2], s[1])]_vars

\* Reached: five players rated 1000 drew with five rated 1500 and the return
\* match, finalized second, was drawn too; it was settled from the ratings
\* 1018 and 1484 of the first draw, which leaves the higher side at 1469 (the
\* stored averages 1000 and 1500 would leave it at 1468).
C30_Witness ==
    /\ last.op = "update_ratings"
    /\ last.kind = "ok"
    /\ last.game_id = GameIdAt(1)
    /\ pending_games = <<>>
    /\ [i \in 1..Len(players) |-> players[i].elo]
          = <<1036, 1036, 1036, 1036, 1036, 1469, 1469, 1469, 1469, 1469>>
    /\ \A i \in 1..Len(players) : players[i].games_played = 2

\* C33: an update_ratings or record_manual_game call that ends in an error
\* (identifier not pending, roster name that is no key of the registry,
\* roster of the wrong size, name that resolves to no player) leaves every
\* player and every pending game as they were.
C33_FailureAtomic ==
    [][(/\ last'.op \in {"update_ratings", "record_manual_game"}
        /\ last'.kind # "ok")
          => /\ players' = players
             /\ pending_games' = pending_games]_vars

\* Reached: a game was created, its players then played a manual game, one
\* of them was removed and the finalization of the game raised; the game is
\* still pending and the ten players left keep their one game.
C33_Witness ==
    /\ last.op = "update_ratings"
    /\ last.kind = "KeyError"
    /\ last.game_id \in DOMAIN pending_games
    /\ Len(players) = NumParticipants
    /\ \A i \in 1..Len(players) : players[i].games_played = 1

\* Reached: a manual game with an unregistered name was refused while a game
\* was pending.
C33_ManualRefused ==
    /\ last.op = "record_manual_game"
    /\ last.kind = "not_found"
    /\ DOMAIN pending_games # {}

\* No two of the names are equal but for case.
DistinctPlayers(names) ==
    \A i, j \in 1..Len(names) : Lower(names[i]) = Lower(names[j]) => i = j

\* C34: every pending game holds ten pairwise different players across its
\* two rosters, whatever list of ten names create_teams accepted, lists that
\* repeat a name or spell it in two ways included.
C34_TenDistinctPlayers ==
    \A g \in DOMAIN pending_games :
        /\ Len(pending_games[g].team1 \o pending_games[g].team2) = NumParticipants
        /\ DistinctPlayers(pending_games[g].team1 \o pending_games[g].team2)

\* What create_teams does ensure: five names a side, each the registered
\* spelling of a player.
C34_FiveRegisteredNamesASide ==
    \A g \in DOMAIN pending_games :
        /\ Len(pending_games[g].team1) = TeamSize
        /\ Len(pending_games[g].team2) = TeamSize
        /\ RosterNames(pending_games[g]) \subseteq Keys(players)

\* Reached: a pending game with one player on both teams.
C34_OnBothTeams ==
    \E g \in DOMAIN pending_games :
        Range(pending_games[g].team1) \cap Range(pending_games[g].team2) # {}

\* Reached: a pending game with one player twice on a team.
C34_TwiceOnATeam ==
    \E g \in DOMAIN pending_games :
        \/ ~DistinctPlayers(pending_games[g].team1)
        \/ ~DistinctPlayers(pending_games[g].team2)

\* The step leaves no player of the roster winners with a lower rating and
\* no player of the roster losers with a higher one.
WinnersUpLosersDown(winners, losers) ==
    \A i \in 1..Len(players) :
        /\ players[i].name \in Range(winners) => players'[i].elo >= players[i].elo
        /\ players[i].name \in Range(losers) => players'[i].elo <= players[i].elo

\* C35: in every successful update_ratings with a decisive score no player
\* of the winning team ends with a lower rating than before and no player of
\* the losing team with a higher one.
C35_WinnersUpLosersDown ==
    [][\A g \in GameIds : \A s \in Scores :
         (/\ Returned("update_ratings", "ok")
          /\ last'.game_id = g
          /\ s[1] # s[2]
          /\ update_ratings(g, s[1], s[2]))
            => IF s[1] > s[2]
               THEN WinnersUpLosersDown(pending_games[g].team1, pending_games[g].team2)
               ELSE WinnersUpLosersDown(pending_games[g].team2, pending_games[g].team1)]_vars

\* The same for the games whose ten roster players are different.
C35_OfDistinctRosters ==
    [][\A g \in GameIds : \A s \in Scores :
         (/\ Returned("update_ratings", "ok")
          /\ last'.game_id = g
          /\ s[1] # s[2]
          /\ update_ratings(g, s[1], s[2])
          /\ DistinctPlayers(pending_games[g].team1 \o pending_games[g].team2))
            => IF s[1] > s[2]
               THEN WinnersUpLosersDown(pending_games[g].team1, pending_games[g].team2)
               ELSE WinnersUpLosersDown(pending_games[g].team2, pending_games[g].team1)]_vars

\* The same for every score of up to MaxSideGoals goals a side (the loaded
\* games of RatingSpec have different players).
C35_OfLoadedGames ==
    [][\A g \in GameIds : \A s \in RatingScores :
         (/\ Returned("update_ratings", "ok")
          /\ last'.game_id = g
          /\ s[1] # s[2]
          /\ update_ratings(g, s[1], s[2]))
            => IF s[1] > s[2]
               THEN WinnersUpLosersDown(pending_games[g].team1, pending_games[g].team2)
               ELSE WinnersUpLosersDown(pending_games[g].team2, pending_games[g].team1)]_vars

\* The registry after the request th has been served alone on the registry
\* ps: update_ratings of its game with its score.
Served(ps, th) ==
    ApplyGame(ps,
              [i \in 1..TeamSize |-> KeyIndex(ps, ThreadGames[th.game_id].team1[i])],
              [i \in 1..TeamSize |-> KeyIndex(ps, ThreadGames[th.game_id].team2[i])],
              th.team1_score, th.team2_score)

BothFinalized ==
    \A t \in Threads : threads[t].pc = "done" /\ threads[t].result = "ok"

SharedByTheGames ==
    RosterNames(ThreadGames[GameIdAt(0)]) \cap RosterNames(ThreadGames[GameIdAt(1)])

\* C31: when two concurrent requests have finalized different pending games
\* whose rosters share a player, the games_played of every shared player has
\* grown by exactly two and his rating is the one that the two games leave
\* when applied one after the other, in one order or the other.
C31_NoLostUpdate ==
    (BothFinalized /\ threads[1].game_id # threads[2].game_id)
       => LET first == Served(Served(ThreadPlayers, threads[1]), threads[2])
              second == Served(Served(ThreadPlayers, threads[2]), threads[1])
          IN \A i \in 1..Len(players) :
                players[i].name \in SharedByTheGames
                   => /\ players[i].games_played = ThreadPlayers[i].games_played + 2
                      /\ players[i].elo \in {first[i].elo, second[i].elo}

\* What does hold: two requests neither of which is suspended while it is
\* served leave the registry of the two games applied one after the other.
C31_OfUninterruptedRequests ==
    (BothFinalized /\ threads[1].game_id # threads[2].game_id /\ preemptions = 0)
       => players \in {Served(Served(ThreadPlayers, threads[1]), threads[2]),
                       Served(Served(ThreadPlayers, threads[2]), threads[1])}

\* Reached: both games finalized by requests that were not suspended.
C31_SerialRequests ==
    /\ BothFinalized
    /\ threads[1].game_id # threads[2].game_id
    /\ preemptions = 0

\* Reached: John, suspended between the evaluation of his new rating and
\* the stores, has one game on his counter after two decisive games.
C31_LostGame ==
    /\ BothFinalized
    /\ threads[1].game_id # threads[2].game_id
    /\ players[1].games_played = 1
    /\ players[1].wins + players[1].losses = 2

\* Reached: the request for the first game, won 1-0, was suspended with
\* John's new rating 1910 evaluated; the request for the return match, won
\* 1-0 by the other side, ran to its end; the first then stored 1910 over
\* John's 1880 and went on with the averages it had taken before.
C31_LostUpdate ==
    /\ BothFinalized
    /\ threads[1].game_id # threads[2].game_id
    /\ preemptions = 1
    /\ [i \in 1..Len(players) |-> players[i].elo]
          = <<1910, 1694, 1500, 1306, 1112, 1596, 1599, 1402, 1405, 1500>>

\* C32: two concurrent requests to finalize the same pending game apply its
\* rating and counter updates at most once in total.
C32_AppliedAtMostOnce ==
    (/\ \A t \in Threads : threads[t].pc = "done"
     /\ threads[1].game_id = threads[2].game_id)
       => players \in {ThreadPlayers, Served(ThreadPlayers, threads[1]),
                       Served(ThreadPlayers, threads[2])}

\* What does hold: of two requests for the same game that are not suspended
\* the second is answered that the game is not found.
C32_OfUninterruptedRequests ==
    (/\ \A t \in Threads : threads[t].pc = "done"
     /\ threads[1].game_id = threads[2].game_id
     /\ preemptions = 0)
       => /\ players \in {Served(ThreadPlayers, threads[1]),
                          Served(ThreadPlayers, threads[2])}
          /\ \E t \in Threads : threads[t].result = "not_found"

\* Reached: both requests passed the check, every player has two games from
\* the one game, and the second del raised KeyError.
C32_AppliedTwice ==
    /\ \A t \in Threads : threads[t].pc = "done"
    /\ threads[1].game_id = threads[2].game_id
    /\ \E t \in Threads : threads[t].result = "KeyError"
    /\ \A i \in 1..Len(players) : players[i].games_played = 2
    /\ [i \in 1..Len(players) |-> players[i].elo]
          = <<1910, 1724, 1537, 1352, 1158, 1562, 1557, 1361, 1356, 1463>>

-----------------------------------------------------------------------------
(* Scores sent in the chat *)

CarriesScore(text) == parse_score(text) # <<>>

NamesNoGame(text) == LastGameIdWord(Words(text, 1)) = <<>>

\* The step finalizes the pending game g: g leaves the pending games and
\* the players of its rosters, and no others, have played one game more.
FinalizedBy(g) ==
    /\ g \in DOMAIN pending_games
    /\ pending_games' = DictDel(pending_games, g)
    /\ Len(players') = Len(players)
    /\ \A i \in 1..Len(players) :
          players'[i].games_played =
             players[i].games_played +
                (IF players[i].name \in Range(pending_games[g].team1)
                                          \cup Range(pending_games[g].team2)
                 THEN 1 ELSE 0)

Untouched == players' = players /\ pending_games' = pending_games

ScoreWithoutGameId ==
    IF Cardinality(DOMAIN pending_games) = 1
    THEN Untouched \/ FinalizedBy(OnlyPending)
    ELSE Untouched

C36_HyphenOrSpaceFinalizes ==
    [][\A m \in ChatMessages :
         (last'.op = "handle_message" /\ message' = m
            /\ ChatSender \notin DOMAIN manual_game_sessions
            /\ CarriesScore(m) /\ NamesNoGame(m)
            /\ Range(m) \cap {"-", " "} # {}
            /\ Cardinality(DOMAIN pending_games) = 1)
         => FinalizedBy(OnlyPending)]_vars

C36_TwoPending ==
    /\ last.op = "handle_message" /\ last.kind = "score_not_understood"
    /\ message \in ScoreTexts
    /\ Cardinality(DOMAIN pending_games) = 2

\* The score with a colon was not taken as a score with one game pending.
C36_ColonIgnored ==
    /\ last.op = "handle_message" /\ last.kind = "not_understood"
    /\ CarriesScore(message) /\ NamesNoGame(message)
    /\ manual_game_sessions = <<>>
    /\ Cardinality(DOMAIN pending_games) = 1

\* The score of a manual entry changed the players with no game pending.
C36_ManualScore ==
    /\ last.op = "handle_message" /\ last.kind = "manual_ok"
    /\ message \in ScoreTexts
    /\ pending_games = <<>>
    /\ \A i \in 1..Len(players) : players[i].games_played = 1

-----------------------------------------------------------------------------
(* The manual entry of a game *)

Occurrences(name, names) == Cardinality({k \in 1..Len(names) : names[k] = name})

\* record_manual_game was applied once to the rosters team1 and team2.
RecordedOnce(team1, team2) ==
    /\ Len(players') = Len(players)
    /\ \A i \in 1..Len(players) :
          players'[i].games_played =
             players[i].games_played + Occurrences(players[i].name, team1 \o team2)

\* What the message m of the sender p does to the sessions and the ratings.
SessionStep(p, m) ==
    IF lower(strip(m)) \in RegistraWords
    THEN /\ manual_game_sessions' = DictSet(manual_game_sessions, p, NewSession)
         /\ players' = players
    ELSE IF p \notin DOMAIN manual_game_sessions
    THEN manual_game_sessions' = manual_game_sessions
    ELSE IF lower(strip(m)) \in CancelWords
    THEN /\ manual_game_sessions' = DictDel(manual_game_sessions, p)
         /\ players' = players
    ELSE IF manual_game_sessions[p].step = "team1"
    THEN /\ players' = players
         /\ manual_game_sessions' =
               IF Len(parse_participant_list(m)) = TeamSize
               THEN DictSet(manual_game_sessions, p,
                            [step |-> "team2",
                             team1 |-> StringsOf(parse_participant_list(m)),
                             team2 |-> <<>>])
               ELSE manual_game_sessions
    ELSE IF manual_game_sessions[p].step = "team2"
    THEN /\ players' = players
         /\ manual_game_sessions' =
               IF Len(parse_participant_list(m)) = TeamSize
               THEN DictSet(manual_game_sessions, p,
                            [step |-> "score",
                             team1 |-> manual_game_sessions[p].team1,
                             team2 |-> StringsOf(parse_participant_list(m))])
               ELSE manual_game_sessions
    ELSE IF parse_score(m) = <<>>
    THEN /\ players' = players
         /\ manual_game_sessions' = manual_game_sessions
    ELSE /\ RecordedOnce(manual_game_sessions[p].team1, manual_game_sessions[p].team2)
         /\ \/ manual_game_sessions' = DictDel(manual_game_sessions, p)
            \/ /\ last'.kind = "AttributeError"
               /\ manual_game_sessions' = manual_game_sessions

C37_SessionsHaveSteps ==
    \A p \in DOMAIN manual_game_sessions :
        /\ manual_game_sessions[p].step \in {"team1", "team2", "score"}
        /\ Len(manual_game_sessions[p].team1) =
              (IF manual_game_sessions[p].step = "team1" THEN 0 ELSE TeamSize)
        /\ Len(manual_game_sessions[p].team2) =
              (IF manual_game_sessions[p].step = "score" THEN TeamSize ELSE 0)

C37_RecordedAndKept ==
    /\ last.op = "handle_message" /\ last.kind = "AttributeError"
    /\ "391" \in DOMAIN manual_game_sessions
    /\ manual_game_sessions["391"].step = "score"
    /\ \A i \in 1..Len(players) : players[i].games_played = 1

-----------------------------------------------------------------------------
(* The reminders *)

\* C38: a reminder fires only for a game that is still pending when it
\* fires; once a game is finalized its reminder is never sent.
C38_RemindersOnlyForPending ==
    [][\A g \in GameIds :
         (last'.op = "send_reminder" /\ last'.game_id = g)
         => g \in DOMAIN pending_games]_vars

\* Every reminder sent is the one scheduled at the creation of its game, to
\* the sender who created it, and no game has two.
C38_RemindersAsScheduled ==
    /\ \A k \in 1..Len(delivered) :
          /\ delivered[k].game_id \in DOMAIN game_reminders
          /\ delivered[k].to = game_reminders[delivered[k].game_id]
    /\ \A j, k \in 1..Len(delivered) :
          delivered[j].game_id = delivered[k].game_id => j = k

\* The reminder of a finalized game has been sent.
C38_SentAfterFinalized ==
    /\ last.op = "send_reminder"
    /\ last.game_id \notin DOMAIN pending_games
    /\ Len(delivered) = 1
    /\ \A i \in 1..Len(players) : players[i].games_played = 1

\* The reminder of a game that is still pending has been sent.
C38_SentWhilePending ==
    /\ last.op = "send_reminder"
    /\ last.game_id \in DOMAIN pending_games

====
